---------------------------- MODULE Spec2Model ----------------------------
(***************************************************************************)
(* TKGM WFS harvester: the daily sync loop (src/src/scraper.py and the     *)
(* older copy in src/main.py), the cursor store (tk_settings) and the      *)
(* batch upsert of the repositories (tk_parsel, tk_ilce, tk_mahalle,       *)
(* tk_failed_records).                                                     *)
(*                                                                         *)
(* Strings of the feed are modelled as TLA+ strings, Python's None as the  *)
(* reserved string None.  A raw feature id is modelled as the sequence of  *)
(* its '.'-separated segments.  Dates are day numbers.                     *)
(***************************************************************************)
EXTENDS Integers, Sequences, FiniteSets, TLC

VARIABLES
    \* ---- storage (PostgreSQL) ----
    tk_parsel,            \* committed rows of tk_parsel, in insertion order
    tk_ilce,              \* committed rows of tk_ilce
    tk_mahalle,           \* committed rows of tk_mahalle
    tk_failed_records,    \* committed rows of tk_failed_records
    tk_settings,          \* scrape_type -> its rows (UNIQUE: none or one)
    tk_logs,              \* number of rows of tk_logs (one per answered query)
    \* ---- the scraper process ----
    impl,                 \* which copy of sync_daily_parcels runs
    pc,                   \* position of the process
    running,              \* TKGMScraper.running
    current_date,         \* loop variable current_date
    current_index,        \* loop variable current_index
    content,              \* raw features of the page in hand
    all_features,         \* decoded entities of the page in hand
    raw_count,            \* len(feature_members) of the page in hand
    features_count,       \* len(all_features) of the page in hand
    saved_count,          \* value insert_parcels returned for the page in hand
    page_at,              \* (date, index) the page in hand was fetched at
    outcome,              \* how the processing of the page in hand ended
    end_reason,           \* how the invocation ended
    \* ---- observation of a run (history) ----
    restarts,             \* number of process restarts so far
    fetched,              \* pages fetched by the current process
    fetched_before,       \* pages fetched by the process before this one
    refetched,            \* pages fetched again by the current process
    first_fetch,          \* first page the current process fetched
    crash_at,             \* loop position when the previous process ended
    \* ---- the repository harness ----
    kind,                 \* entity kind the harness persists
    feed,                 \* entities still to be handed to the repository
    last_batch,           \* batch of the last repository call
    last_result,          \* counters of the last repository call
    before_last,          \* table contents before the last repository call
    submitted,            \* every entity handed to the repository so far, in order
    calls,                \* sequence of call labels made so far
    in_flight,            \* caller -> its statement on tk_failed_records not yet committed
    \* ---- the call of fetch_features in progress, or the last one that failed ----
    attempt,              \* local variable attempt
    sleeps,               \* number of time.sleep(self.retry_delay) so far
    answer,               \* what the last HTTP attempt met
    quota_at,             \* attempt that met the quota message (0: none)
    quota_before,         \* an earlier invocation of today met the quota message
    \* ---- the connection pool of the process ----
    pool_idle,            \* connections that lie idle in DatabaseConnection._pool
    pool_used,            \* connections handed out by the pool and not given back
    pool_result,          \* how the last repository operation of the pool harness ended
    notified,             \* how the report of the last saved page fared at the notifier
    \* ---- WFSGeometryProcessor and its call of process_geometry_element ----
    gdal_available,       \* GDAL_AVAILABLE of the build
    source_crs,           \* WFSGeometryProcessor.source_crs
    target_crs,           \* WFSGeometryProcessor.target_crs
    geom_pc,              \* position inside process_geometry_element
    geom_type,            \* local variable geom_type (tag of the element found)
    coord_read,           \* texts of the gml:coordinates elements read so far
    all_original_rings,   \* local variable all_original_rings
    all_transformed_rings, \* local variable all_transformed_rings
    geom_wkt,             \* local variable wkt
    \* ---- the query log (tk_logs) ----
    query_log             \* what insert_log recorded of the page in hand

vars == << tk_parsel, tk_ilce, tk_mahalle, tk_failed_records, tk_settings,
           tk_logs, impl, pc, running, current_date, current_index, content,
           all_features, raw_count, features_count, saved_count, page_at,
           outcome, end_reason, restarts, fetched, fetched_before, refetched,
           first_fetch, crash_at,
           kind, feed, last_batch, last_result, before_last, submitted,
           calls, in_flight,
           attempt, sleeps, answer, quota_at, quota_before,
           pool_idle, pool_used, pool_result,
           notified,
           gdal_available, source_crs, target_crs, geom_pc, geom_type,
           coord_read, all_original_rings, all_transformed_rings, geom_wkt,
           query_log >>

dbVars == << tk_parsel, tk_ilce, tk_mahalle, tk_failed_records >>

loopVars == << impl, pc, running, current_date, current_index, content,
               all_features, raw_count, features_count, saved_count, page_at,
               outcome, end_reason, restarts, fetched, fetched_before,
               refetched, first_fetch, crash_at, query_log >>

\* what a run of the process leaves behind for the observer
historyVars == << restarts, fetched, fetched_before, refetched, first_fetch,
                  crash_at >>

harnessVars == << kind, feed, last_batch, last_result, before_last,
                  submitted, calls >>

fetchVars == << attempt, sleeps, answer, quota_at, quota_before >>

poolVars == << pool_idle, pool_used, pool_result >>

geomVars == << gdal_available, source_crs, target_crs, geom_pc, geom_type,
              coord_read, all_original_rings, all_transformed_rings, geom_wkt >>

---------------------------------------------------------------------------
(* Bounds of the model *)

\* settings.MAX_FEATURES (page size), scaled down
MaxFeatures == 2
\* number of days between the first cursor date and 'today'
MaxDays == 2
\* largest number of full pages followed on one date
MaxPages == 2
\* number of process restarts observed
MaxRestarts == 1
\* largest number of entities handed to the repository harness
MaxBatch == 2
\* largest retry_count a failed record is followed to
MaxRetryCount == 1

None == "None"

\* processes that use the failed-record store at the same time
Callers == { "a", "b" }

\* a caller without an open statement
Idle == [ op |-> "idle" ]

\* sequences over S of length at most n
RECURSIVE SeqUpTo(_, _)
SeqUpTo(S, n) ==
    IF n = 0 THEN { << >> }
    ELSE LET shorter == SeqUpTo(S, n - 1)
         IN  shorter \cup { Append(s, x) : s \in { t \in shorter : Len(t) = n - 1 }, x \in S }

---------------------------------------------------------------------------
(* Storage: tables, unique constraints, ON CONFLICT *)

\* values of tk_settings.scrape_type the callers pass: main.py passes the
\* boolean False for the daily sync, scraper.py and the quota flag pass the
\* string constants of SettingsRepository
ScrapeTypes == { "False", "True", "daily_sync", "daily_limit_reached" }

Last(s) == s[Len(s)]

\* Python truthiness of an optional string ('not feature["fid"]')
Falsy(v) == v = None \/ v = ""

\* A column of type BIGINT refuses text that is no number; the statement
\* raises on the server and the open transaction becomes aborted.
ServerRejects(number) == number = "x"

\* UNIQUE(tapukimlikno, tapuzeminref): NULLs never conflict
ParcelConflicts(table, row) ==
    { i \in DOMAIN table :
        /\ row.tapukimlikno # None /\ row.tapuzeminref # None
        /\ table[i].tapukimlikno = row.tapukimlikno
        /\ table[i].tapuzeminref = row.tapuzeminref }

\* UNIQUE(tapukimlikno) of tk_ilce and tk_mahalle
SingleKeyConflicts(table, row) ==
    { i \in DOMAIN table :
        row.tapukimlikno # None /\ table[i].tapukimlikno = row.tapukimlikno }

\* a conflict clause that keeps the stored row: ON CONFLICT ... DO NOTHING
KeepExisting(old, new) == old

\* ON CONFLICT ... DO UPDATE SET <every non-key column> = EXCLUDED.<column>
DoUpdateSet(old, new) == new

\* The parameter tuple of the INSERT (parcel_repository.py 136-158).  In the
\* source the literal 'sistemkayittarihi' is split over lines 141-143, which
\* Python refuses to compile; the statement is modelled with the literal in
\* one piece, the reading under which the repository package loads at all.
ParcelRow(feature) ==
    [ fid          |-> feature.fid,
      tapukimlikno |-> feature.tapukimlikno,
      tapuzeminref |-> feature.tapuzeminref,
      parselno     |-> feature.parselno,
      geom         |-> feature.wkt ]

\* INSERT INTO tk_parsel ... ON CONFLICT (tapukimlikno, tapuzeminref) DO UPDATE
UpsertParcel(table, feature) ==
    LET row  == ParcelRow(feature)
        hits == ParcelConflicts(table, row)
    IN  IF hits = {} THEN Append(table, row)
        ELSE LET i == CHOOSE j \in hits : TRUE
             IN  [table EXCEPT ![i] = DoUpdateSet(table[i], row)]

DistrictRow(feature) ==
    [ fid          |-> feature.fid,
      tapukimlikno |-> feature.tapukimlikno,
      ilref        |-> feature.ilref,
      geom         |-> feature.wkt ]

\* INSERT INTO tk_ilce ... ON CONFLICT (tapukimlikno) DO UPDATE
UpsertDistrict(table, feature) ==
    LET row  == DistrictRow(feature)
        hits == SingleKeyConflicts(table, row)
    IN  IF hits = {} THEN Append(table, row)
        ELSE LET i == CHOOSE j \in hits : TRUE
             IN  [table EXCEPT ![i] = DoUpdateSet(table[i], row)]

NeighbourhoodRow(feature) ==
    [ fid          |-> feature.fid,
      tapukimlikno |-> feature.tapukimlikno,
      ilceref      |-> feature.ilceref,
      geom         |-> feature.wkt ]

\* INSERT INTO tk_mahalle ... ON CONFLICT (tapukimlikno) DO UPDATE
UpsertNeighbourhood(table, feature) ==
    LET row  == NeighbourhoodRow(feature)
        hits == SingleKeyConflicts(table, row)
    IN  IF hits = {} THEN Append(table, row)
        ELSE LET i == CHOOSE j \in hits : TRUE
             IN  [table EXCEPT ![i] = DoUpdateSet(table[i], row)]

\* str(feature.get('fid', 'unknown'))
EntityId(feature) == IF feature.fid = None THEN "None" ELSE feature.fid

\* a table definition without UNIQUE(entity_type, entity_id, status)
NoFailedConstraint(failed, entity_type, entity_id, status) == {}

\* UNIQUE(entity_type, entity_id, status) of tk_failed_records: the rows a
\* new row with these values conflicts with
FailedConflicts(failed, entity_type, entity_id, status) ==
    { i \in DOMAIN failed :
        /\ failed[i].entity_type = entity_type
        /\ failed[i].entity_id = entity_id
        /\ failed[i].status = status }

\* the row insert_failed_record writes
FailedRow(entity_type, feature, error) ==
    [ entity_type |-> entity_type,
      entity_id   |-> EntityId(feature),
      raw_data    |-> feature,
      error_type  |-> error,
      retry_count |-> 0,
      status      |-> "failed" ]

\* FailedRecordsRepository.insert_failed_record: its own connection and
\* transaction; INSERT ... ON CONFLICT (entity_type, entity_id, status) DO NOTHING
insert_failed_record(failed, entity_type, feature, error) ==
    IF FailedConflicts(failed, entity_type, EntityId(feature), "failed") # {}
    THEN failed
    ELSE Append(failed, FailedRow(entity_type, feature, error))

---------------------------------------------------------------------------
(* Repositories: one transaction per batch *)

\* state of a batch transaction before its first statement
BeginBatch(table, failed) ==
    [ tx |-> table, aborted |-> FALSE, failed |-> failed,
      saved_count |-> 0, skipped_count |-> 0, error_count |-> 0 ]

\* a loop body that lets an entity without fid pass without counting it
UncountedSkip(st, feature) ==
    IF Falsy(feature.fid)
    THEN st
    ELSE [st EXCEPT !.saved_count = @ + 1]

\* body of the 'for feature in features' loop of insert_parcels
ParcelStep(st, feature) ==
    IF Falsy(feature.fid)
    THEN [st EXCEPT !.skipped_count = @ + 1]
    ELSE IF feature.wkt = ""
    THEN [st EXCEPT !.failed = insert_failed_record(@, "parcel", feature, "ValueError"),
                    !.skipped_count = @ + 1]
    ELSE IF st.aborted
    THEN [st EXCEPT !.failed = insert_failed_record(@, "parcel", feature, "InFailedSqlTransaction"),
                    !.error_count = @ + 1]
    ELSE IF ServerRejects(feature.parselno)
    THEN [st EXCEPT !.aborted = TRUE,
                    !.failed = insert_failed_record(@, "parcel", feature, "DataError"),
                    !.error_count = @ + 1]
    ELSE [st EXCEPT !.tx = UpsertParcel(@, feature),
                    !.saved_count = @ + 1]

\* body of the loop of insert_districts (no failed-record routing)
DistrictStep(st, feature) ==
    IF Falsy(feature.fid)
    THEN [st EXCEPT !.skipped_count = @ + 1]
    ELSE IF feature.wkt = ""
    THEN [st EXCEPT !.skipped_count = @ + 1]
    ELSE IF st.aborted
    THEN [st EXCEPT !.error_count = @ + 1]
    ELSE IF ServerRejects(feature.ilref)
    THEN [st EXCEPT !.aborted = TRUE, !.error_count = @ + 1]
    ELSE [st EXCEPT !.tx = UpsertDistrict(@, feature),
                    !.saved_count = @ + 1]

\* body of the loop of insert_neighbourhoods
NeighbourhoodStep(st, feature) ==
    IF Falsy(feature.fid)
    THEN [st EXCEPT !.skipped_count = @ + 1]
    ELSE IF feature.wkt = ""
    THEN [st EXCEPT !.skipped_count = @ + 1]
    ELSE IF st.aborted
    THEN [st EXCEPT !.error_count = @ + 1]
    ELSE IF ServerRejects(feature.ilceref)
    THEN [st EXCEPT !.aborted = TRUE, !.error_count = @ + 1]
    ELSE [st EXCEPT !.tx = UpsertNeighbourhood(@, feature),
                    !.saved_count = @ + 1]

RECURSIVE ParcelLoop(_, _)
ParcelLoop(st, features) ==
    IF features = << >> THEN st
    ELSE ParcelLoop(ParcelStep(st, Head(features)), Tail(features))

RECURSIVE DistrictLoop(_, _)
DistrictLoop(st, features) ==
    IF features = << >> THEN st
    ELSE DistrictLoop(DistrictStep(st, Head(features)), Tail(features))

RECURSIVE NeighbourhoodLoop(_, _)
NeighbourhoodLoop(st, features) ==
    IF features = << >> THEN st
    ELSE NeighbourhoodLoop(NeighbourhoodStep(st, Head(features)), Tail(features))

\* conn.commit(): COMMIT of an aborted transaction rolls it back
Commit(table, st) ==
    [ table         |-> IF st.aborted THEN table ELSE st.tx,
      failed        |-> st.failed,
      saved_count   |-> st.saved_count,
      skipped_count |-> st.skipped_count,
      error_count   |-> st.error_count ]

\* ParcelRepository.insert_parcels
insert_parcels(table, failed, features) ==
    IF features = << >>
    THEN [ table |-> table, failed |-> failed,
           saved_count |-> 0, skipped_count |-> 0, error_count |-> 0 ]
    ELSE Commit(table, ParcelLoop(BeginBatch(table, failed), features))

\* DistrictRepository.insert_districts
insert_districts(table, failed, features) ==
    IF features = << >>
    THEN [ table |-> table, failed |-> failed,
           saved_count |-> 0, skipped_count |-> 0, error_count |-> 0 ]
    ELSE Commit(table, DistrictLoop(BeginBatch(table, failed), features))

\* NeighbourhoodRepository.insert_neighbourhoods
insert_neighbourhoods(table, failed, features) ==
    IF features = << >>
    THEN [ table |-> table, failed |-> failed,
           saved_count |-> 0, skipped_count |-> 0, error_count |-> 0 ]
    ELSE Commit(table, NeighbourhoodLoop(BeginBatch(table, failed), features))

---------------------------------------------------------------------------
(* Entities the decoders can hand to the repositories *)

\* natural keys of parcels, NULL in either column included
ParcelKeys == { <<"1", "1">>, <<"2", "1">>, <<None, "1">>, <<"1", None>> }

ParcelFeature(fid, key, parselno, wkt) ==
    [ fid |-> fid, tapukimlikno |-> key[1], tapuzeminref |-> key[2],
      parselno |-> parselno, wkt |-> wkt ]

ParcelFeatures ==
    { ParcelFeature("1", k, n, "W") : k \in ParcelKeys, n \in {"7", "8"} }
    \cup { ParcelFeature(None, <<"2", "1">>, "7", "W"),     \* no fid
           ParcelFeature("8", <<"2", "1">>, "7", ""),       \* empty wkt
           ParcelFeature("9", <<"2", "1">>, "x", "W") }     \* refused by the server

DistrictFeature(fid, tapukimlikno, ilref, wkt) ==
    [ fid |-> fid, tapukimlikno |-> tapukimlikno, ilref |-> ilref, wkt |-> wkt ]

DistrictFeatures ==
    { DistrictFeature("1", k, n, "W") : k \in {"1", "2", None}, n \in {"7", "8"} }
    \cup { DistrictFeature(None, "2", "7", "W"),
           DistrictFeature("8", "2", "7", ""),
           DistrictFeature("9", "2", "x", "W") }

NeighbourhoodFeature(fid, tapukimlikno, ilceref, wkt) ==
    [ fid |-> fid, tapukimlikno |-> tapukimlikno, ilceref |-> ilceref, wkt |-> wkt ]

NeighbourhoodFeatures ==
    { NeighbourhoodFeature("1", k, n, "W") : k \in {"1", "2", None}, n \in {"7", "8"} }
    \cup { NeighbourhoodFeature(None, "2", "7", "W"),
           NeighbourhoodFeature("8", "2", "7", ""),
           NeighbourhoodFeature("9", "2", "x", "W") }

Kinds == { "parcel", "district", "neighbourhood" }

FeaturesOf(k) ==
    IF k = "parcel" THEN ParcelFeatures
    ELSE IF k = "district" THEN DistrictFeatures
    ELSE NeighbourhoodFeatures

\* no query logged for a page in hand
NoLog == [ logged |-> FALSE, feature_count |-> 0, is_empty |-> FALSE ]

NoResult == [ saved_count |-> 0, skipped_count |-> 0, error_count |-> 0 ]

Counters(r) ==
    [ saved_count |-> r.saved_count, skipped_count |-> r.skipped_count,
      error_count |-> r.error_count ]

---------------------------------------------------------------------------
(* The repositories called directly: each call is one insert_* invocation *)

\* the first n elements of a sequence
Take(s, n) == SubSeq(s, 1, n)
\* what is left after the first n elements
Drop(s, n) == SubSeq(s, n + 1, Len(s))

\* no HTTP attempt met anything yet
NoAnswer == [ kind |-> "none", status |-> 0, limit |-> FALSE ]

\* no call of fetch_features is in progress and none has failed
NoFetch ==
    /\ attempt' = 0
    /\ sleeps' = 0
    /\ answer' = NoAnswer
    /\ quota_at' = 0

\* psycopg2.pool.SimpleConnectionPool(minconn=2, maxconn=20), scaled down
minconn == 2
maxconn == 4

\* the pool after its construction: minconn connections opened and idle
InitPool ==
    /\ pool_idle = minconn
    /\ pool_used = 0
    /\ pool_result = "none"

\* no WFSGeometryProcessor constructed yet
NoGeometry ==
    /\ gdal_available = FALSE
    /\ source_crs = None
    /\ target_crs = None
    /\ geom_pc = "idle"
    /\ geom_type = None
    /\ coord_read = << >>
    /\ all_original_rings = << >>
    /\ all_transformed_rings = << >>
    /\ geom_wkt = [ keyword |-> None, shells |-> << >>, writer |-> None ]

InitFetch ==
    /\ attempt = 0
    /\ sleeps = 0
    /\ answer = NoAnswer
    /\ quota_at = 0
    /\ quota_before = FALSE

InitStorage ==
    /\ InitPool
    /\ tk_parsel = << >>
    /\ tk_ilce = << >>
    /\ tk_mahalle = << >>
    /\ tk_failed_records = << >>
    /\ tk_settings = [ t \in ScrapeTypes |-> << >> ]
    /\ tk_logs = 0
    /\ in_flight = [ c \in Callers |-> Idle ]

InitProcessIdle ==
    /\ notified = "none"
    /\ NoGeometry
    /\ query_log = NoLog
    /\ impl = "scraper"
    /\ pc = "idle"
    /\ running = TRUE
    /\ current_date = 0
    /\ current_index = 0
    /\ content = << >>
    /\ all_features = << >>
    /\ raw_count = 0
    /\ features_count = 0
    /\ saved_count = 0
    /\ page_at = << 0, 0 >>
    /\ outcome = "none"
    /\ end_reason = "none"
    /\ restarts = 0
    /\ fetched = {}
    /\ fetched_before = {}
    /\ refetched = {}
    /\ first_fetch = << >>
    /\ crash_at = << >>
    /\ InitFetch

InitPersist ==
    /\ InitStorage
    /\ InitProcessIdle
    /\ kind \in Kinds
    /\ feed \in SeqUpTo(FeaturesOf(kind), MaxBatch)
    /\ last_batch = << >>
    /\ last_result = NoResult
    /\ before_last = << >>
    /\ submitted = << >>
    /\ calls = << >>

\* db.insert_parcels(batch) with the next n entities of the feed
InsertParcelsCall(n) ==
    /\ kind = "parcel"
    /\ n \in 1..Len(feed)
    /\ LET r == insert_parcels(tk_parsel, tk_failed_records, Take(feed, n))
       IN  /\ tk_parsel' = r.table
           /\ tk_failed_records' = r.failed
           /\ last_result' = Counters(r)
    /\ before_last' = tk_parsel
    /\ last_batch' = Take(feed, n)
    /\ submitted' = submitted \o Take(feed, n)
    /\ feed' = Drop(feed, n)
    /\ calls' = Append(calls, "insert")
    /\ UNCHANGED << tk_ilce, tk_mahalle, tk_settings, tk_logs, loopVars, kind, in_flight, fetchVars, poolVars, notified, geomVars >>

\* the same page persisted again (re-fetch of the in-flight page)
ReplayParcels ==
    /\ kind = "parcel"
    /\ last_batch # << >>
    /\ feed = << >>
    /\ Last(calls) = "insert"
    /\ LET r == insert_parcels(tk_parsel, tk_failed_records, last_batch)
       IN  /\ tk_parsel' = r.table
           /\ tk_failed_records' = r.failed
           /\ last_result' = Counters(r)
    /\ before_last' = tk_parsel
    /\ submitted' = submitted \o last_batch
    /\ calls' = Append(calls, "replay")
    /\ UNCHANGED << tk_ilce, tk_mahalle, tk_settings, tk_logs, loopVars, kind, feed, last_batch, in_flight, fetchVars, poolVars, notified, geomVars >>

\* db.insert_districts(batch)
InsertDistrictsCall(n) ==
    /\ kind = "district"
    /\ n \in 1..Len(feed)
    /\ LET r == insert_districts(tk_ilce, tk_failed_records, Take(feed, n))
       IN  /\ tk_ilce' = r.table
           /\ tk_failed_records' = r.failed
           /\ last_result' = Counters(r)
    /\ before_last' = tk_ilce
    /\ last_batch' = Take(feed, n)
    /\ submitted' = submitted \o Take(feed, n)
    /\ feed' = Drop(feed, n)
    /\ calls' = Append(calls, "insert")
    /\ UNCHANGED << tk_parsel, tk_mahalle, tk_settings, tk_logs, loopVars, kind, in_flight, fetchVars, poolVars, notified, geomVars >>

\* db.insert_neighbourhoods(batch)
InsertNeighbourhoodsCall(n) ==
    /\ kind = "neighbourhood"
    /\ n \in 1..Len(feed)
    /\ LET r == insert_neighbourhoods(tk_mahalle, tk_failed_records, Take(feed, n))
       IN  /\ tk_mahalle' = r.table
           /\ tk_failed_records' = r.failed
           /\ last_result' = Counters(r)
    /\ before_last' = tk_mahalle
    /\ last_batch' = Take(feed, n)
    /\ submitted' = submitted \o Take(feed, n)
    /\ feed' = Drop(feed, n)
    /\ calls' = Append(calls, "insert")
    /\ UNCHANGED << tk_parsel, tk_ilce, tk_settings, tk_logs, loopVars, kind, in_flight, fetchVars, poolVars, notified, geomVars >>

NextPersist ==
    \/ \E n \in 1..MaxBatch + 1 : InsertParcelsCall(n)
    \/ ReplayParcels
    \/ \E n \in 1..MaxBatch + 1 : InsertDistrictsCall(n)
    \/ \E n \in 1..MaxBatch + 1 : InsertNeighbourhoodsCall(n)

SpecPersist == InitPersist /\ [][NextPersist]_vars

---------------------------------------------------------------------------
(* The failed-record store used by several callers at once.  Every function *)
(* of FailedRecordsRepository is one statement and its commit on a          *)
(* connection of its own; a statement that meets an uncommitted write to    *)
(* the same row or the same unique key waits for that transaction.          *)

\* entities whose persistence fails: refused by the server, empty geometry
FailingParcels ==
    { e \in ParcelFeatures :
        ~Falsy(e.fid) /\ (e.wkt = "" \/ ServerRejects(e.parselno)) }

\* the unique key (entity_type, entity_id, status) of a row
FailedKey(row) == << row.entity_type, row.entity_id, row.status >>

\* keys that uncommitted statements of callers other than c are about to hold
PendingKeys(c) ==
    { FailedKey(in_flight[d].row) :
        d \in { x \in Callers \ {c} : in_flight[x].op \in { "insert", "update" } } }

\* rows that uncommitted UPDATEs of callers other than c have locked
LockedRows(c) ==
    { in_flight[d].id : d \in { x \in Callers \ {c} : in_flight[x].op = "update" } }

\* insert_failed_record, the statement: INSERT ... ON CONFLICT DO NOTHING
InsertFailedExecute(c, feature, error) ==
    /\ in_flight[c] = Idle
    /\ LET row == FailedRow("parcel", feature, error)
       IN  /\ FailedKey(row) \notin PendingKeys(c)
           /\ in_flight' =
                [in_flight EXCEPT ![c] =
                    IF FailedConflicts(tk_failed_records, row.entity_type,
                                       row.entity_id, row.status) # {}
                    THEN [ op |-> "nothing" ]
                    ELSE [ op |-> "insert", row |-> row ]]
    /\ UNCHANGED << dbVars, tk_settings, tk_logs, loopVars, harnessVars, fetchVars, poolVars, notified, geomVars >>

\* mark_as_resolved, the statement: UPDATE ... SET status = 'resolved' WHERE
\* id = %s; a unique violation is raised, logged, and False is returned
MarkAsResolvedExecute(c, id) ==
    /\ in_flight[c] = Idle
    /\ id \in DOMAIN tk_failed_records
    /\ id \notin LockedRows(c)
    /\ LET row == [tk_failed_records[id] EXCEPT !.status = "resolved"]
           hits == FailedConflicts(tk_failed_records, row.entity_type,
                                   row.entity_id, row.status) \ { id }
       IN  /\ FailedKey(row) \notin PendingKeys(c)
           /\ in_flight' =
                [in_flight EXCEPT ![c] =
                    IF hits # {} THEN [ op |-> "nothing" ]
                    ELSE [ op |-> "update", id |-> id, row |-> row ]]
    /\ UNCHANGED << dbVars, tk_settings, tk_logs, loopVars, harnessVars, fetchVars, poolVars, notified, geomVars >>

\* FailedRecordsRepository.mark_as_resolved with no other statement open:
\* the UPDATE and its commit, True returned; a unique violation leaves the
\* table as it was and False is returned
mark_as_resolved(failed, record_id) ==
    LET row == [failed[record_id] EXCEPT !.status = "resolved"]
        hits == FailedConflicts(failed, row.entity_type, row.entity_id,
                                row.status) \ { record_id }
    IN  IF hits # {}
        THEN [ failed |-> failed, returned |-> FALSE ]
        ELSE [ failed |-> [failed EXCEPT ![record_id] = row],
               returned |-> TRUE ]

\* increment_retry_count, the statement: UPDATE ... SET retry_count =
\* retry_count + 1 WHERE id = %s
IncrementRetryCountExecute(c, id) ==
    /\ in_flight[c] = Idle
    /\ id \in DOMAIN tk_failed_records
    /\ id \notin LockedRows(c)
    /\ tk_failed_records[id].retry_count < MaxRetryCount
    /\ in_flight' =
         [in_flight EXCEPT ![c] =
             [ op |-> "update", id |-> id,
               row |-> [tk_failed_records[id] EXCEPT !.retry_count = @ + 1] ]]
    /\ UNCHANGED << dbVars, tk_settings, tk_logs, loopVars, harnessVars, fetchVars, poolVars, notified, geomVars >>

\* conn.commit() of the caller's statement
CommitFailed(c) ==
    /\ in_flight[c] # Idle
    /\ tk_failed_records' =
         IF in_flight[c].op = "insert"
         THEN Append(tk_failed_records, in_flight[c].row)
         ELSE IF in_flight[c].op = "update"
         THEN [tk_failed_records EXCEPT ![in_flight[c].id] = in_flight[c].row]
         ELSE tk_failed_records
    /\ in_flight' = [in_flight EXCEPT ![c] = Idle]
    /\ UNCHANGED << tk_parsel, tk_ilce, tk_mahalle, tk_settings, tk_logs,
                    loopVars, harnessVars, fetchVars, poolVars, notified, geomVars >>

\* a batch is persisted (or persisted again) while no other caller has a
\* statement open
BatchWhenQuiet(n) ==
    /\ \A c \in Callers : in_flight[c] = Idle
    /\ InsertParcelsCall(n) \/ ReplayParcels

InitFailed ==
    /\ InitStorage
    /\ InitProcessIdle
    /\ kind = "parcel"
    /\ feed \in SeqUpTo(FailingParcels, 1)
    /\ last_batch = << >>
    /\ last_result = NoResult
    /\ before_last = << >>
    /\ submitted = << >>
    /\ calls = << >>

NextFailed ==
    \/ \E c \in Callers, e \in FailingParcels :
          InsertFailedExecute(c, e, "DataError")
    \/ \E c \in Callers, id \in 1..Cardinality(FailingParcels) * 2 :
          MarkAsResolvedExecute(c, id)
    \/ \E c \in Callers, id \in 1..Cardinality(FailingParcels) * 2 :
          IncrementRetryCountExecute(c, id)
    \/ \E c \in Callers : CommitFailed(c)
    \/ \E n \in 1..MaxBatch : BatchWhenQuiet(n)

\* concurrent callers of the failed-record store
SpecFailed == InitFailed /\ [][NextFailed]_vars

---------------------------------------------------------------------------
(* The cursor store (tk_settings) *)

\* a conversion of the parameter by its truth value in Python: every
\* non-empty string is True
TruthyColumn(scrape_type) ==
    IF scrape_type = "False" THEN "False" ELSE "True"

\* the value of the BOOLEAN column scrape_type for a parameter: the Python
\* booleans are stored as they are, a string that spells no boolean has no
\* value
BooleanColumn(scrape_type) ==
    IF scrape_type \in { "False", "True" } THEN scrape_type ELSE None

\* tk_settings.scrape_type is declared BOOLEAN: the server refuses a text
\* value that spells no boolean, the statement raises
ColumnAccepts(scrape_type) == BooleanColumn(scrape_type) # None

\* a row whose two values went into each other's column
SwappedColumns(query_date, start_index) ==
    [ query_date |-> start_index, start_index |-> query_date ]

Cursor(query_date, start_index) ==
    [ query_date |-> query_date, start_index |-> start_index ]

\* the keyword arguments every caller of update_setting passes
SettingFields == { "query_date", "start_index", "scrape_type" }

\* an UPDATE SET list that carries the date alone
DateClauseOnly(fields) == { "query_date" }

\* update_clauses: one 'field = EXCLUDED.field' per field passed, but for
\* scrape_type
UpdateClauses(fields) == fields \ { "scrape_type" }

\* the one statement INSERT ... ON CONFLICT (scrape_type) DO UPDATE SET ...:
\* a new row, or the existing row with the columns of the SET list replaced
UpsertCursor(rows, new) ==
    IF rows = << >> THEN << new >>
    ELSE << [ f \in DOMAIN new |->
                IF f \in UpdateClauses(SettingFields) THEN new[f]
                ELSE rows[1][f] ] >>

\* SettingsRepository.update_setting: INSERT ... ON CONFLICT (scrape_type) DO
\* UPDATE; an exception is logged and False is returned
update_setting(settings, query_date, start_index, scrape_type) ==
    IF ColumnAccepts(scrape_type)
    THEN [settings EXCEPT ![BooleanColumn(scrape_type)] =
              UpsertCursor(@, Cursor(query_date, start_index))]
    ELSE settings

\* SettingsRepository.get_last_setting: the rows the SELECT ... LIMIT 1
\* yields; none ({} in the code) when nothing is stored or the query raised
get_last_setting(settings, scrape_type) ==
    IF ColumnAccepts(scrape_type) THEN settings[BooleanColumn(scrape_type)]
    ELSE << >>

\* a check that answers True when it cannot tell
LimitAssumed(settings, today) ==
    \/ ~ColumnAccepts("daily_limit_reached")
    \/ /\ settings["daily_limit_reached"] # << >>
       /\ settings["daily_limit_reached"][1].query_date = today

\* SettingsRepository.is_daily_limit_reached: the flag row carries today's
\* date; False when the query raised
is_daily_limit_reached(settings, today) ==
    /\ ColumnAccepts("daily_limit_reached")
    /\ settings["daily_limit_reached"] # << >>
    /\ settings["daily_limit_reached"][1].query_date = today

\* SettingsRepository.clear_daily_limit: DELETE ... WHERE scrape_type = %s
clear_daily_limit(settings) ==
    IF ColumnAccepts("daily_limit_reached")
    THEN [settings EXCEPT ![BooleanColumn("daily_limit_reached")] = << >>]
    ELSE settings

\* the statement of update_setting, executed on the caller's connection: it
\* raises when the column refuses the value; it waits while another caller
\* holds an uncommitted statement on the same value of the unique column
SettingExecute(c, scrape_type, query_date, start_index) ==
    /\ pc = "idle"
    /\ in_flight[c] = Idle
    /\ IF ~ColumnAccepts(scrape_type)
       THEN in_flight' = [in_flight EXCEPT ![c] = [ op |-> "aborted" ]]
       ELSE /\ \A d \in Callers \ { c } :
                 in_flight[d].op \in { "upsert", "delete" }
                 => BooleanColumn(in_flight[d].scrape_type)
                      # BooleanColumn(scrape_type)
            /\ in_flight' =
                 [in_flight EXCEPT ![c] =
                     [ op |-> "upsert", scrape_type |-> scrape_type,
                       row |-> Cursor(query_date, start_index) ]]
    /\ UNCHANGED << dbVars, tk_settings, tk_logs, loopVars, harnessVars,
                    fetchVars, poolVars, notified, geomVars >>

\* set_daily_limit_reached: update_setting under the key of the flag
FlagExecute(c) == SettingExecute(c, "daily_limit_reached", MaxDays, 0)

\* the statement of clear_daily_limit
ClearExecute(c) ==
    /\ pc = "idle"
    /\ in_flight[c] = Idle
    /\ IF ~ColumnAccepts("daily_limit_reached")
       THEN in_flight' = [in_flight EXCEPT ![c] = [ op |-> "aborted" ]]
       ELSE /\ \A d \in Callers \ { c } :
                 in_flight[d].op \in { "upsert", "delete" }
                 => BooleanColumn(in_flight[d].scrape_type)
                      # BooleanColumn("daily_limit_reached")
            /\ in_flight' =
                 [in_flight EXCEPT ![c] =
                     [ op |-> "delete",
                       scrape_type |-> "daily_limit_reached" ]]
    /\ UNCHANGED << dbVars, tk_settings, tk_logs, loopVars, harnessVars,
                    fetchVars, poolVars, notified, geomVars >>

\* conn.commit() after the statement, or the 'except' that returns False
SettingCommit(c) ==
    /\ in_flight[c].op \in { "upsert", "delete", "aborted" }
    /\ tk_settings' =
         IF in_flight[c].op = "upsert"
         THEN update_setting(tk_settings, in_flight[c].row.query_date,
                             in_flight[c].row.start_index,
                             in_flight[c].scrape_type)
         ELSE IF in_flight[c].op = "delete"
         THEN clear_daily_limit(tk_settings)
         ELSE tk_settings
    /\ in_flight' = [in_flight EXCEPT ![c] = Idle]
    /\ UNCHANGED << dbVars, tk_logs, loopVars, harnessVars, fetchVars,
                    poolVars, notified, geomVars >>

\* the sync modes whose cursors main.py stores: daily (False), full (True)
CursorModes == { "False", "True" }

InitSettings ==
    /\ InitStorage
    /\ InitProcessIdle
    /\ kind = "parcel"
    /\ feed = << >>
    /\ last_batch = << >>
    /\ last_result = NoResult
    /\ before_last = << >>
    /\ submitted = << >>
    /\ calls = << >>

NextSettings ==
    \/ \E c \in Callers, t \in CursorModes \cup { "daily_sync" },
          d \in 1..2, i \in { 0, MaxFeatures } : SettingExecute(c, t, d, i)
    \/ \E c \in Callers : FlagExecute(c)
    \/ \E c \in Callers : ClearExecute(c)
    \/ \E c \in Callers : SettingCommit(c)

\* processes of several sync modes that save cursors and set or clear the
\* quota flag at the same time
SpecSettings == InitSettings /\ [][NextSettings]_vars

---------------------------------------------------------------------------
(* Pages of the service and their decoding *)

\* a feature of the feed: the segments of its fid attribute, its key
\* attributes, one other attribute, and its geometry (None: no supported
\* geometry element)
RawFeature(fid_full, key, parselno, geometry) ==
    [ fid_full |-> fid_full, tapukimlikno |-> key[1], tapuzeminref |-> key[2],
      parselno |-> parselno, geometry |-> geometry ]

RawFeatures ==
    { RawFeature(<<"parseller", "1">>, <<"1", "1">>, "7", "W"),   \* well formed
      RawFeature(<<"1">>, <<"2", "1">>, "7", "W"),                \* fid without '.'
      RawFeature(<<"parseller", "3">>, <<"2", "1">>, "7", None),  \* no geometry
      RawFeature(<<"parseller", "4">>, <<"2", "1">>, "7", "bad"), \* coordinates that do not parse
      RawFeature(<<"tkgm", "parseller", "9">>, <<"2", "1">>, "x", "W") }
                                                  \* two dots; refused by the server

\* responses of the service: at most max_features features per page
Pages == SeqUpTo(RawFeatures, MaxFeatures)

\* an extraction that takes an id without '.' whole
FidOrWholeId(fid_full) == fid_full[Len(fid_full)]

\* fid_full.split('.')[-1] when fid_full holds a '.', else None
ExtractFid(fid_full) ==
    IF Len(fid_full) >= 2 THEN fid_full[Len(fid_full)] ELSE None

\* extract_coordinates_from_string (or the coordinate transformation) raises
\* on this geometry
GeometryRaises(geometry) == geometry = "bad"

\* WFSGeometryProcessor.process_geometry_element: the WKT of the first
\* supported geometry; None (found = FALSE) when there is none, and also
\* when processing the geometry raised: the exception is logged, the search
\* goes on and ends without a geometry
process_geometry_element(elem) ==
    IF elem.geometry = None \/ GeometryRaises(elem.geometry)
    THEN [ found |-> FALSE, wkt |-> None ]
    ELSE [ found |-> TRUE, wkt |-> elem.geometry ]

\* the feature dictionary built from one element of the page
DecodeElement(elem) ==
    ParcelFeature(ExtractFid(elem.fid_full),
                  << elem.tapukimlikno, elem.tapuzeminref >>,
                  elem.parselno,
                  process_geometry_element(elem).wkt)

\* main.py: the inline decoding of a page; an element is kept only when
\* its geometry produced a WKT
RECURSIVE DecodeInline(_)
DecodeInline(feature_members) ==
    IF feature_members = << >> THEN << >>
    ELSE LET elem == Head(feature_members)
             rest == DecodeInline(Tail(feature_members))
             geom == process_geometry_element(elem)
         IN  IF geom.found /\ ~Falsy(geom.wkt)
             THEN << DecodeElement(elem) >> \o rest
             ELSE rest

\* WFSGeometryProcessor.parse_wfs_xml returns the list of featureMember
\* elements of the document, not the document
parse_wfs_xml(xml_content) == [ is_element |-> FALSE, members |-> xml_content ]

\* WFSGeometryProcessor.process_parcel_wfs_response: calls findall on what
\* parse_wfs_xml returned; a list has no findall, the AttributeError is
\* logged and raised again
process_parcel_wfs_response(xml_content) ==
    LET root == parse_wfs_xml(xml_content)
    IN  IF root.is_element
        THEN [ raised |-> FALSE, features |-> DecodeInline(root.members) ]
        ELSE [ raised |-> TRUE, features |-> << >> ]

\* the decoding step of the copy of the loop that runs
Decode(i, xml_content) ==
    IF i = "scraper" THEN process_parcel_wfs_response(xml_content)
    ELSE [ raised |-> FALSE, features |-> DecodeInline(xml_content) ]

---------------------------------------------------------------------------
(* The daily sync loop: TKGMScraper.sync_daily_parcels *)

\* datetime.now() of the invocation, as a day number
Today == MaxDays

\* main(): the date the first invocation starts from when no cursor is stored
DefaultDate == 0

\* the scrape_type each copy of the loop passes to the cursor store
ScrapeTypeOf(i) == IF i = "main" THEN "False" ELSE "daily_sync"

\* the cursor row of the running copy of the loop
Persisted == get_last_setting(tk_settings, ScrapeTypeOf(impl))

\* positions of a process that is inside sync_daily_parcels
InLoop == { "loop", "fetching", "fetched", "decoded", "inserted", "final" }

\* an index advance that counts pages instead of features
AdvanceIndexByOne(index) == index + 1

\* current_index += max_features
AdvanceIndex(index) == index + MaxFeatures

\* a day-advance test on the count the repository returned
EndOfDayBySaved(found, saved) == saved < MaxFeatures

\* if features_count < max_features
EndOfDay(found, saved) == found < MaxFeatures

\* the body of an answer, as the sequence of its tags and texts: the root
\* element, and inside it one gml:featureMember element (an opening tag,
\* the feature, a closing tag) per feature
Tag(name) == [ tag |-> TRUE, name |-> name ]
Text == [ tag |-> FALSE, name |-> "" ]

RECURSIVE MemberText(_)
MemberText(feature_members) ==
    IF feature_members = << >> THEN << >>
    ELSE << Tag("gml:featureMember"), Tag("TKGM:parseller"), Text,
            Tag("TKGM:parseller"), Tag("gml:featureMember") >>
         \o MemberText(Tail(feature_members))

ResponseText(feature_members) ==
    << Tag("wfs:FeatureCollection"), Tag("gml:boundedBy"), Text,
       Tag("gml:boundedBy") >>
    \o MemberText(feature_members)
    \o << Tag("wfs:FeatureCollection") >>

\* content.count(sub) for the name of a tag: every opening and every
\* closing tag of that name holds it once
RECURSIVE str_count(_, _)
str_count(text, sub) ==
    IF text = << >> THEN 0
    ELSE (IF Head(text).tag /\ Head(text).name = sub THEN 1 ELSE 0)
         + str_count(Tail(text), sub)

\* fetch_features, a successful answer: feature_count and is_empty of the
\* row handed to db.insert_log
insert_log(feature_members) ==
    LET feature_count ==
            str_count(ResponseText(feature_members), "gml:featureMember")
    IN  [ logged |-> TRUE, feature_count |-> feature_count,
          is_empty |-> feature_count = 0 ]

\* the page in hand is done with: what was noted of it is dropped
ForgetPage ==
    /\ content' = << >>
    /\ raw_count' = 0
    /\ features_count' = 0
    /\ saved_count' = 0
    /\ page_at' = << 0, 0 >>
    /\ outcome' = "none"
    /\ query_log' = NoLog

\* main(): load the stored cursor and call sync_daily_parcels; scraper.py
\* first asks the quota flag and returns when it is set
Start ==
    /\ pc = "idle"
    /\ LET last_setting == get_last_setting(tk_settings, ScrapeTypeOf(impl))
       IN  /\ current_index' = IF last_setting = << >> THEN 0
                               ELSE last_setting[1].start_index
           /\ current_date' = IF last_setting = << >> THEN DefaultDate
                              ELSE last_setting[1].query_date
    /\ IF impl = "scraper" /\ is_daily_limit_reached(tk_settings, Today)
       THEN pc' = "returned" /\ end_reason' = "quota"
       ELSE pc' = "loop" /\ end_reason' = "none"
    /\ UNCHANGED << dbVars, tk_settings, tk_logs, impl, running, content,
                    all_features, raw_count, features_count, saved_count,
                    page_at, outcome, historyVars, harnessVars, in_flight,
                    fetchVars, poolVars, notified, geomVars,
                    query_log >>

\* while current_date < end_date and self.running: the test fails
ExitLoop ==
    /\ pc = "loop"
    /\ ~(current_date < Today /\ running)
    /\ pc' = "final"
    /\ end_reason' = IF running THEN "date_reached" ELSE "stopped"
    /\ ForgetPage
    /\ UNCHANGED << dbVars, tk_settings, tk_logs, impl, running, current_date,
                    current_index, all_features, historyVars,
                    harnessVars, in_flight, fetchVars, poolVars, notified, geomVars >>

\* fetch_features returns the content of an answered query to the loop; the
\* query is logged (db.insert_log)
TakePage(page) ==
    /\ current_index >= MaxPages * MaxFeatures => page = << >>
    /\ content' = page
    /\ page_at' = << current_date, current_index >>
    /\ tk_logs' = tk_logs + 1
    /\ outcome' = "none"
    /\ fetched' = fetched \cup { page_at' }
    /\ refetched' = IF page_at' \in fetched_before
                    THEN refetched \cup { page_at' } ELSE refetched
    /\ first_fetch' = IF first_fetch = << >> THEN page_at' ELSE first_fetch
    /\ pc' = "fetched"
    /\ query_log' = insert_log(page)
    /\ raw_count' = 0
    /\ features_count' = 0
    /\ saved_count' = 0

\* client.fetch_features answers with a page; the query is logged
FetchPage(page) ==
    /\ pc = "loop"
    /\ current_date < Today /\ running
    /\ TakePage(page)
    /\ UNCHANGED << dbVars, tk_settings, impl, running, current_date,
                    current_index, all_features, end_reason, restarts,
                    fetched_before, crash_at, harnessVars, in_flight,
                    fetchVars, poolVars, notified, geomVars >>

\* client.fetch_features returns None (retries used up, a 4xx answer, the
\* quota answer): the loop breaks
FetchNone ==
    /\ pc = "loop"
    /\ current_date < Today /\ running
    /\ ForgetPage
    /\ end_reason' = "fetch_failed"
    /\ pc' = "final"
    /\ UNCHANGED << dbVars, tk_settings, tk_logs, impl, running, current_date,
                    current_index, all_features, historyVars,
                    harnessVars, in_flight, fetchVars, poolVars, notified, geomVars >>

\* parse the page and decode its features
DecodePage ==
    /\ pc = "fetched"
    /\ running
    /\ raw_count' = Len(content)
    /\ IF Len(content) = 0
       THEN \* no feature member: next day, index 0, continue
            /\ current_date' = current_date + 1
            /\ current_index' = 0
            /\ outcome' = "empty"
            /\ pc' = "loop"
            /\ UNCHANGED << content, all_features, features_count,
                            end_reason >>
       ELSE LET r == Decode(impl, content)
            IN  IF r.raised
                THEN \* except Exception: break
                     /\ outcome' = "error"
                     /\ end_reason' = "processing_error"
                     /\ pc' = "final"
                     /\ content' = << >>
                     /\ UNCHANGED << current_date, current_index,
                                     all_features, features_count >>
                ELSE IF r.features = << >>
                THEN \* if not all_features: next day, index 0, continue
                     /\ current_date' = current_date + 1
                     /\ current_index' = 0
                     /\ outcome' = "undecoded"
                     /\ pc' = "loop"
                     /\ UNCHANGED << content, all_features, features_count,
                                     end_reason >>
                ELSE /\ all_features' = r.features
                     /\ features_count' = Len(r.features)
                     /\ outcome' = "none"
                     /\ pc' = "decoded"
                     /\ UNCHANGED << content, current_date, current_index,
                                     end_reason >>
    /\ UNCHANGED << dbVars, tk_settings, tk_logs, impl, running, saved_count,
                    page_at, historyVars, harnessVars, in_flight, fetchVars,
                    poolVars, notified, geomVars,
                    query_log >>

\* saved_count = db.insert_parcels(all_features)
PersistPage ==
    /\ pc = "decoded"
    /\ LET r == insert_parcels(tk_parsel, tk_failed_records, all_features)
       IN  /\ tk_parsel' = r.table
           /\ tk_failed_records' = r.failed
           /\ saved_count' = r.saved_count
    /\ pc' = "inserted"
    /\ UNCHANGED << tk_ilce, tk_mahalle, tk_settings, tk_logs, impl, running,
                    current_date, current_index, content, all_features,
                    raw_count, features_count, page_at, outcome, end_reason,
                    historyVars, harnessVars, in_flight, fetchVars,
                    poolVars, notified, geomVars,
                    query_log >>

\* insert_parcels raises (no connection to be had): rollback, the loop breaks
PersistRaises ==
    /\ pc = "decoded"
    /\ outcome' = "error"
    /\ end_reason' = "persistence_error"
    /\ all_features' = << >>
    /\ content' = << >>
    /\ pc' = "final"
    /\ UNCHANGED << dbVars, tk_settings, tk_logs, impl, running, current_date,
                    current_index, raw_count, features_count,
                    saved_count, page_at, historyVars, harnessVars,
                    in_flight, fetchVars, poolVars, notified, geomVars,
                    query_log >>

\* how the report of a page can fare: the notifier is not configured, the
\* message is sent, send_message returns False (it catches its own
\* exceptions), or format_pull_report raises
Notifications == { "unconfigured", "sent", "refused", "raised" }

\* a loop that a raised notification error takes out of the page
AbortsWhenRaised(n) == n = "raised"

\* 'except Exception as e: logger.error(...)' around the report, and the
\* result of send_message is not looked at: no notification ends the page
NotificationAborts(n) == FALSE

\* report the page, advance the index, save the cursor, then test for the
\* end of the day
SaveCursor(n) ==
    /\ pc = "inserted"
    /\ notified' = n
    /\ IF NotificationAborts(n)
       THEN \* the exception reaches 'except Exception: ... break'
            /\ outcome' = "error"
            /\ end_reason' = "persistence_error"
            /\ pc' = "final"
            /\ UNCHANGED << tk_settings, current_date, current_index >>
       ELSE /\ tk_settings' = update_setting(tk_settings, current_date,
                                             AdvanceIndex(current_index),
                                             ScrapeTypeOf(impl))
            /\ IF EndOfDay(features_count, saved_count)
               THEN current_date' = current_date + 1 /\ current_index' = 0
               ELSE current_date' = current_date
                    /\ current_index' = AdvanceIndex(current_index)
            /\ outcome' = "saved"
            /\ pc' = "loop"
            /\ UNCHANGED end_reason
    /\ all_features' = << >>
    /\ content' = << >>
    /\ UNCHANGED << dbVars, tk_logs, impl, running, raw_count,
                    features_count, saved_count, page_at,
                    historyVars, harnessVars, in_flight, fetchVars,
                    poolVars, geomVars,
                    query_log >>

\* after the loop: the final update_setting, then return
FinalSave ==
    /\ pc = "final"
    /\ tk_settings' = update_setting(tk_settings, current_date, current_index,
                                     ScrapeTypeOf(impl))
    /\ pc' = "returned"
    /\ UNCHANGED << dbVars, tk_logs, impl, running, current_date,
                    current_index, content, all_features, raw_count,
                    features_count, saved_count, page_at, outcome, end_reason,
                    historyVars, harnessVars, in_flight, fetchVars,
                    poolVars, notified, geomVars,
                    query_log >>

\* _signal_handler (SIGINT, SIGTERM): running becomes False and
\* KeyboardInterrupt is raised where the process stands; no 'except
\* Exception' of the loop catches it, main() logs it and returns
Signal ==
    /\ pc \in InLoop
    /\ running
    /\ running' = FALSE
    /\ end_reason' = "signal"
    /\ pc' = "interrupted"
    /\ all_features' = << >>
    /\ ForgetPage
    /\ UNCHANGED << dbVars, tk_settings, tk_logs, impl, current_date,
                    current_index, historyVars, harnessVars, in_flight,
                    fetchVars, poolVars, notified, geomVars >>

\* the signal arrives inside insert_parcels, before conn.commit(): the
\* statements of the first k features have run in the open transaction,
\* KeyboardInterrupt is no Exception, so only the 'finally' runs and closes
\* the connection: the transaction is gone, the failed records written on
\* connections of their own stay
SignalInPersist ==
    /\ pc = "decoded"
    /\ running
    /\ all_features # << >>
    /\ \E k \in 1..Len(all_features) :
          LET st == ParcelLoop(BeginBatch(tk_parsel, tk_failed_records),
                               SubSeq(all_features, 1, k))
          IN  tk_failed_records' = st.failed
    /\ running' = FALSE
    /\ end_reason' = "signal_in_persist"
    /\ pc' = "interrupted"
    /\ all_features' = << >>
    /\ ForgetPage
    /\ UNCHANGED << tk_parsel, tk_ilce, tk_mahalle, tk_settings, tk_logs,
                    impl, current_date, current_index, historyVars,
                    harnessVars, in_flight, fetchVars, poolVars, notified, geomVars >>

\* the signal arrives while fetch_features decodes an error answer: the bare
\* 'except:' of client.py swallows the KeyboardInterrupt, the loop is left
\* through its own tests of self.running
SignalSwallowed ==
    /\ pc = "loop"
    /\ current_date < Today /\ running
    /\ running' = FALSE
    /\ end_reason' = "stopped"
    /\ pc' = "final"
    /\ ForgetPage
    /\ UNCHANGED << dbVars, tk_settings, tk_logs, impl, current_date,
                    current_index, all_features, historyVars,
                    harnessVars, in_flight, fetchVars, poolVars, notified, geomVars >>

\* the process dies (SIGKILL, power loss) inside the loop: its memory is gone
Crash ==
    /\ pc \in InLoop
    /\ crash_at' = IF pc \in { "fetched", "decoded", "inserted" }
                   THEN page_at ELSE << current_date, current_index >>
    /\ end_reason' = "crash"
    /\ pc' = "dead"
    /\ running' = FALSE
    /\ current_date' = 0
    /\ current_index' = 0
    /\ all_features' = << >>
    /\ ForgetPage
    /\ UNCHANGED << dbVars, tk_settings, tk_logs, impl, restarts, fetched,
                    fetched_before, refetched, first_fetch, harnessVars,
                    in_flight, fetchVars, poolVars, notified, geomVars >>

\* the scheduler starts the next process: nothing but the storage survives
Restart ==
    /\ pc \in { "dead", "interrupted", "returned" }
    /\ restarts < MaxRestarts
    /\ restarts' = restarts + 1
    /\ fetched_before' = fetched
    /\ fetched' = {}
    /\ refetched' = {}
    /\ first_fetch' = << >>
    /\ crash_at' = IF pc = "dead" THEN crash_at ELSE << >>
    /\ pc' = "idle"
    /\ running' = TRUE
    /\ current_date' = 0
    /\ current_index' = 0
    /\ all_features' = << >>
    /\ ForgetPage
    /\ end_reason' = "none"
    /\ NoFetch
    /\ quota_before' = (quota_before \/ quota_at # 0)
    /\ UNCHANGED << dbVars, tk_settings, tk_logs, impl, harnessVars, in_flight, poolVars, notified, geomVars >>

Init ==
    /\ InitStorage
    /\ notified = "none"
    /\ NoGeometry
    /\ query_log = NoLog
    /\ impl \in { "main", "scraper" }
    /\ pc = "idle"
    /\ running = TRUE
    /\ current_date = 0
    /\ current_index = 0
    /\ content = << >>
    /\ all_features = << >>
    /\ raw_count = 0
    /\ features_count = 0
    /\ saved_count = 0
    /\ page_at = << 0, 0 >>
    /\ outcome = "none"
    /\ end_reason = "none"
    /\ restarts = 0
    /\ fetched = {}
    /\ fetched_before = {}
    /\ refetched = {}
    /\ first_fetch = << >>
    /\ crash_at = << >>
    /\ InitFetch
    /\ kind = "parcel"
    /\ feed = << >>
    /\ last_batch = << >>
    /\ last_result = NoResult
    /\ before_last = << >>
    /\ submitted = << >>
    /\ calls = << >>

Next ==
    \/ Start
    \/ ExitLoop
    \/ \E page \in Pages : FetchPage(page)
    \/ FetchNone
    \/ DecodePage
    \/ PersistPage
    \/ PersistRaises
    \/ \E n \in Notifications : SaveCursor(n)
    \/ FinalSave
    \/ Signal
    \/ SignalInPersist
    \/ SignalSwallowed

\* one invocation of the daily sync
Spec == Init /\ [][Next]_vars

\* invocations that follow each other, a process that dies included
NextResume ==
    \/ Next
    \/ Crash
    \/ Restart

SpecResume == Init /\ [][NextResume]_vars

\* an invocation all of whose fetches succeed and that no signal reaches
NextTerm ==
    \/ Start
    \/ ExitLoop
    \/ \E page \in Pages : FetchPage(page)
    \/ DecodePage
    \/ PersistPage
    \/ PersistRaises
    \/ \E n \in Notifications : SaveCursor(n)
    \/ FinalSave

\* the process is not halted from outside: a step that it can take is taken
SpecTerm == Init /\ [][NextTerm]_vars /\ WF_vars(NextTerm)

---------------------------------------------------------------------------
(* The full sync loop: TKGMScraper.sync_fully_parcels, and the calls that *)
(* follow it on the same TKGMScraper instance                              *)

\* largest number of sync calls made on one instance
MaxCalls == 2

\* the scrape_type each copy of the full sync passes to the cursor store
FullyTypeOf(i) == IF i = "main" THEN "True" ELSE "fully_sync"

\* positions of a process that is inside sync_fully_parcels
InFully == { "fully_loop", "fully_fetched", "fully_decoded", "fully_final" }

\* the page the full sync fetched is taken in hand; the query is logged
TakePageFully(page) ==
    /\ current_index >= MaxPages * MaxFeatures => page = << >>
    /\ content' = page
    /\ page_at' = << current_date, current_index >>
    /\ tk_logs' = tk_logs + 1
    /\ outcome' = "none"
    /\ fetched' = fetched \cup { page_at' }
    /\ refetched' = refetched
    /\ first_fetch' = IF first_fetch = << >> THEN page_at' ELSE first_fetch
    /\ pc' = "fully_fetched"
    /\ query_log' = insert_log(page)
    /\ raw_count' = 0
    /\ features_count' = 0
    /\ saved_count' = 0

\* if features_count < max_features: all data has been fetched
EndOfFeed(found) == found < MaxFeatures

\* main(): load the cursor of the full sync and call sync_fully_parcels;
\* scraper.py first asks the quota flag and returns when it is set
StartFully ==
    /\ pc = "idle"
    /\ LET last_setting == get_last_setting(tk_settings, FullyTypeOf(impl))
       IN  current_index' = IF last_setting = << >> THEN 0
                            ELSE last_setting[1].start_index
    /\ current_date' = Today
    /\ IF impl = "scraper" /\ is_daily_limit_reached(tk_settings, Today)
       THEN pc' = "returned" /\ end_reason' = "quota"
       ELSE pc' = "fully_loop" /\ end_reason' = "none"
    /\ UNCHANGED << dbVars, tk_settings, tk_logs, impl, running, content,
                    all_features, raw_count, features_count, saved_count,
                    page_at, outcome, historyVars, harnessVars, in_flight,
                    fetchVars, poolVars, notified, geomVars,
                    query_log >>

\* while self.running: the test fails
ExitFully ==
    /\ pc = "fully_loop"
    /\ ~running
    /\ pc' = "fully_final"
    /\ end_reason' = "stopped"
    /\ UNCHANGED << dbVars, tk_settings, tk_logs, impl, running, current_date,
                    current_index, content, all_features, raw_count,
                    features_count, saved_count, page_at, outcome,
                    historyVars, harnessVars, in_flight, fetchVars, poolVars,
                    notified, geomVars,
                    query_log >>

\* client.fetch_features answers with a page; the query is logged
FetchFully(page) ==
    /\ pc = "fully_loop"
    /\ running
    /\ TakePageFully(page)
    /\ UNCHANGED << dbVars, tk_settings, impl, running, current_date,
                    current_index, all_features, end_reason, restarts,
                    fetched_before, crash_at, harnessVars, in_flight,
                    fetchVars, poolVars, notified, geomVars >>

\* client.fetch_features returns None: the loop breaks
FetchNoneFully ==
    /\ pc = "fully_loop"
    /\ running
    /\ ForgetPage
    /\ end_reason' = "fetch_failed"
    /\ pc' = "fully_final"
    /\ UNCHANGED << dbVars, tk_settings, tk_logs, impl, running, current_date,
                    current_index, all_features, historyVars,
                    harnessVars, in_flight, fetchVars, poolVars, notified,
                    geomVars >>

\* parse the page and decode its features
DecodeFully ==
    /\ pc = "fully_fetched"
    /\ running
    /\ raw_count' = Len(content)
    /\ IF Len(content) = 0
       THEN \* no feature member: self.running = False, continue
            /\ running' = FALSE
            /\ outcome' = "empty"
            /\ pc' = "fully_loop"
            /\ UNCHANGED << all_features, features_count, end_reason >>
       ELSE LET r == Decode(impl, content)
            IN  IF r.raised
                THEN \* except Exception: break
                     /\ outcome' = "error"
                     /\ end_reason' = "processing_error"
                     /\ pc' = "fully_final"
                     /\ UNCHANGED << running, all_features, features_count >>
                ELSE IF r.features = << >>
                THEN \* if not all_features: break
                     /\ outcome' = "undecoded"
                     /\ end_reason' = "undecoded"
                     /\ pc' = "fully_final"
                     /\ UNCHANGED << running, all_features, features_count >>
                ELSE /\ all_features' = r.features
                     /\ features_count' = Len(r.features)
                     /\ outcome' = "none"
                     /\ pc' = "fully_decoded"
                     /\ UNCHANGED << running, end_reason >>
    /\ UNCHANGED << dbVars, tk_settings, tk_logs, impl, current_date,
                    current_index, content, saved_count, page_at,
                    historyVars, harnessVars, in_flight, fetchVars,
                    poolVars, notified, geomVars,
                    query_log >>

\* saved_count = db.insert_parcels(all_features), the index advances, the
\* cursor is saved, and a page of fewer than max_features features clears
\* self.running
PersistFully ==
    /\ pc = "fully_decoded"
    /\ LET r == insert_parcels(tk_parsel, tk_failed_records, all_features)
       IN  /\ tk_parsel' = r.table
           /\ tk_failed_records' = r.failed
           /\ saved_count' = r.saved_count
    /\ current_index' = AdvanceIndex(current_index)
    /\ tk_settings' = update_setting(tk_settings, current_date,
                                     AdvanceIndex(current_index),
                                     FullyTypeOf(impl))
    /\ running' = IF EndOfFeed(features_count) THEN FALSE ELSE running
    /\ outcome' = "saved"
    /\ pc' = "fully_loop"
    /\ UNCHANGED << tk_ilce, tk_mahalle, tk_logs, impl, current_date, content,
                    all_features, raw_count, features_count, page_at,
                    end_reason, historyVars, harnessVars, in_flight,
                    fetchVars, poolVars, notified, geomVars,
                    query_log >>

\* insert_parcels raises: the loop breaks
PersistRaisesFully ==
    /\ pc = "fully_decoded"
    /\ outcome' = "error"
    /\ end_reason' = "persistence_error"
    /\ pc' = "fully_final"
    /\ UNCHANGED << dbVars, tk_settings, tk_logs, impl, running, current_date,
                    current_index, content, all_features, raw_count,
                    features_count, saved_count, page_at, historyVars,
                    harnessVars, in_flight, fetchVars, poolVars, notified,
                    geomVars,
                    query_log >>

\* after the loop: the final update_setting, then return
FinalSaveFully ==
    /\ pc = "fully_final"
    /\ tk_settings' = update_setting(tk_settings, current_date, current_index,
                                     FullyTypeOf(impl))
    /\ pc' = "returned"
    /\ UNCHANGED << dbVars, tk_logs, impl, running, current_date,
                    current_index, content, all_features, raw_count,
                    features_count, saved_count, page_at, outcome, end_reason,
                    historyVars, harnessVars, in_flight, fetchVars,
                    poolVars, notified, geomVars,
                    query_log >>

\* _signal_handler while the full sync runs
SignalFully ==
    /\ pc \in InFully
    /\ running
    /\ running' = FALSE
    /\ end_reason' = "signal"
    /\ pc' = "interrupted"
    /\ all_features' = << >>
    /\ ForgetPage
    /\ UNCHANGED << dbVars, tk_settings, tk_logs, impl, current_date,
                    current_index, historyVars, harnessVars, in_flight,
                    fetchVars, poolVars, notified, geomVars >>

\* the call has returned and the caller makes another sync call on the same
\* TKGMScraper instance: self.running is what the call before left
CallAgain ==
    /\ pc = "returned"
    /\ Len(calls) < MaxCalls - 1
    /\ calls' = Append(calls, end_reason)
    /\ fetched_before' = fetched
    /\ fetched' = {}
    /\ refetched' = {}
    /\ first_fetch' = << >>
    /\ pc' = "idle"
    /\ current_date' = 0
    /\ current_index' = 0
    /\ all_features' = << >>
    /\ ForgetPage
    /\ end_reason' = "none"
    /\ UNCHANGED << dbVars, tk_settings, tk_logs, impl, running, restarts,
                    crash_at, kind, feed, last_batch, last_result,
                    before_last, submitted, in_flight, fetchVars, poolVars,
                    notified, geomVars >>

NextFully ==
    \/ Next
    \/ StartFully
    \/ ExitFully
    \/ \E page \in Pages : FetchFully(page)
    \/ FetchNoneFully
    \/ DecodeFully
    \/ PersistFully
    \/ PersistRaisesFully
    \/ FinalSaveFully
    \/ SignalFully
    \/ CallAgain

\* sync calls that follow each other on one TKGMScraper instance
SpecFully == Init /\ [][NextFully]_vars

---------------------------------------------------------------------------
(* TKGMClient.fetch_features, attempt by attempt, inside the daily loop *)

\* self.max_retries of TKGMClient, scaled down
max_retries == 3

\* what one HTTP attempt can meet: an answered query, a timeout, a connection
\* failure, an HTTP error status (with or without the word 'limit' in its
\* body), or an exception of another kind
Answers ==
    { [ kind |-> k, status |-> 0, limit |-> FALSE ] :
        k \in { "ok", "timeout", "connection", "unexpected" } }
    \cup { [ kind |-> "http", status |-> st, limit |-> l ] :
             st \in { 404, 500, 503 }, l \in BOOLEAN }

\* a status test that takes no answer for a client error
NeverClientError(status) == FALSE

\* if 400 <= e.response.status_code < 500
IsClientError(status) == 400 <= status /\ status < 500

\* if e.response.status_code == 500 ... if "limit" in response_text.lower()
LimitMessage(a) == a.kind = "http" /\ a.status = 500 /\ a.limit

\* the answer is a 5xx response whose body holds the quota keyword
QuotaAnswer(a) == a.kind = "http" /\ a.status >= 500 /\ a.limit

\* the package the module src.client lives in
ClientPackage == << "src" >>

\* 'from ..database.repositories import SettingsRepository': the number of
\* leading dots; the import climbs that many levels from the module, and
\* raises ImportError when the package has fewer
RelativeImportResolves(package, dots) == Len(package) >= Len(dots)

\* SettingsRepository.set_daily_limit_reached
set_daily_limit_reached(settings, today) ==
    update_setting(settings, today, 0, "daily_limit_reached")

\* a retry pause after every attempt, the last one included
SleepsAfterEveryAttempt(n) == TRUE

\* if attempt < self.max_retries: time.sleep(self.retry_delay)
SleepsBeforeRetry(n) == n < max_retries

\* fetch_features returns None and the loop breaks on it
ReturnNone ==
    /\ ForgetPage
    /\ end_reason' = "fetch_failed"
    /\ pc' = "final"
    /\ UNCHANGED << tk_logs, fetched, refetched, first_fetch, sleeps, poolVars, notified, geomVars >>

\* the loop calls client.fetch_features
BeginFetch ==
    /\ pc = "loop"
    /\ current_date < Today /\ running
    /\ pc' = "fetching"
    /\ NoFetch
    /\ UNCHANGED << dbVars, tk_settings, tk_logs, impl, running, current_date,
                    current_index, content, all_features, raw_count,
                    features_count, saved_count, page_at, outcome, end_reason,
                    historyVars, harnessVars, in_flight, quota_before,
                    poolVars, notified, geomVars,
                    query_log >>

\* self.running of the client that fetches: main.py fetches with self.client,
\* the object _signal_handler stops; scraper.py fetches with a local
\* TKGMClient, which the handler does not know
ClientRunning == impl = "scraper" \/ running

\* the attempt is counted and what it met is noted
NoteAttempt(a) ==
    /\ attempt' = attempt + 1
    /\ answer' = a
    /\ quota_at' = IF QuotaAnswer(a) THEN attempt + 1 ELSE quota_at

\* one pass of 'while self.running and attempt < self.max_retries'
Attempt(a, page) ==
    /\ pc = "fetching"
    /\ ClientRunning /\ attempt < max_retries
    /\ IF a.kind = "ok"
       THEN \* return content: the call is over, its locals are gone
            /\ TakePage(page)
            /\ NoFetch
            /\ UNCHANGED << tk_settings, end_reason >>
       ELSE IF LimitMessage(a)
               /\ RelativeImportResolves(ClientPackage, << ".", "." >>)
       THEN \* settings_repo.set_daily_limit_reached(); return None
            /\ NoteAttempt(a)
            /\ tk_settings' = set_daily_limit_reached(tk_settings, Today)
            /\ ReturnNone
       ELSE IF a.kind = "unexpected"
               \/ (a.kind = "http" /\ IsClientError(a.status))
       THEN \* break
            /\ NoteAttempt(a)
            /\ ReturnNone
            /\ UNCHANGED tk_settings
       ELSE \* the attempt failed: pause unless it was the last one
            /\ NoteAttempt(a)
            /\ sleeps' = IF SleepsBeforeRetry(attempt + 1) THEN sleeps + 1
                         ELSE sleeps
            /\ UNCHANGED << tk_settings, tk_logs, content, raw_count,
                            features_count, saved_count, page_at, outcome,
                            end_reason, pc, fetched, refetched, first_fetch,
                            query_log >>
    /\ UNCHANGED << dbVars, impl, running, current_date, current_index,
                    all_features, restarts, fetched_before, crash_at,
                    harnessVars, in_flight, quota_before, poolVars,
                    notified, geomVars >>

\* the signal arrives while the body of a 500 answer is decoded: the bare
\* 'except:' around the decoding swallows the KeyboardInterrupt of
\* _signal_handler, which has set self.running of the scraper (and of
\* self.client) to False; the handling of the answer goes on as in Attempt
AttemptSignalled(a) ==
    /\ pc = "fetching"
    /\ ClientRunning /\ attempt < max_retries
    /\ running
    /\ a.kind = "http" /\ a.status = 500
    /\ running' = FALSE
    /\ NoteAttempt(a)
    /\ IF LimitMessage(a)
          /\ RelativeImportResolves(ClientPackage, << ".", "." >>)
       THEN /\ tk_settings' = set_daily_limit_reached(tk_settings, Today)
            /\ ReturnNone
       ELSE /\ sleeps' = IF SleepsBeforeRetry(attempt + 1) THEN sleeps + 1
                         ELSE sleeps
            /\ UNCHANGED << tk_settings, tk_logs, content, raw_count,
                            features_count, saved_count, page_at, outcome,
                            end_reason, pc, fetched, refetched, first_fetch,
                            query_log >>
    /\ UNCHANGED << dbVars, impl, current_date, current_index,
                    all_features, restarts, fetched_before, crash_at,
                    harnessVars, in_flight, quota_before, poolVars,
                    notified, geomVars >>

\* the while test fails (the retries are used up, or the client was told to
\* stop): None is returned
FetchExhausted ==
    /\ pc = "fetching"
    /\ ~(ClientRunning /\ attempt < max_retries)
    /\ ReturnNone
    /\ UNCHANGED << dbVars, tk_settings, impl, running, current_date,
                    current_index, all_features, restarts, fetched_before,
                    crash_at, harnessVars, in_flight, fetchVars, poolVars,
                    notified, geomVars >>

\* if not self.running: break, after a fetch that returned a page
StopAfterFetch ==
    /\ pc = "fetched"
    /\ ~running
    /\ end_reason' = "stopped"
    /\ pc' = "final"
    /\ ForgetPage
    /\ UNCHANGED << dbVars, tk_settings, tk_logs, impl, running, current_date,
                    current_index, all_features, historyVars, harnessVars,
                    in_flight, fetchVars, poolVars, notified, geomVars >>

\* pages of well-formed features
PlainPages ==
    { p \in Pages :
        \A i \in DOMAIN p : p[i].fid_full = << "parseller", "1" >> }

NextFetch ==
    \/ Start
    \/ ExitLoop
    \/ BeginFetch
    \/ \E a \in Answers, page \in PlainPages : Attempt(a, page)
    \/ \E a \in Answers : AttemptSignalled(a)
    \/ FetchExhausted
    \/ StopAfterFetch
    \/ DecodePage
    \/ PersistPage
    \/ PersistRaises
    \/ \E n \in Notifications : SaveCursor(n)
    \/ FinalSave
    \/ Signal

\* one invocation of the daily sync with the attempts of every fetch
SpecFetch == Init /\ [][NextFetch]_vars

NextQuota ==
    \/ NextFetch
    \/ Restart

\* invocations that follow each other on one day, with the attempts of
\* every fetch
SpecQuota == Init /\ [][NextQuota]_vars

---------------------------------------------------------------------------
(* The connection pool: each repository operation, as to the connection it
   takes from DatabaseConnection._pool *)

\* SimpleConnectionPool.getconn: an idle connection if there is one, else a
\* new one, unless maxconn connections are out: PoolError
getconn(idle, used) ==
    IF idle > 0
    THEN [ ok |-> TRUE, idle |-> idle - 1, used |-> used + 1 ]
    ELSE IF used = maxconn
    THEN [ ok |-> FALSE, idle |-> idle, used |-> used ]
    ELSE [ ok |-> TRUE, idle |-> idle, used |-> used + 1 ]

\* SimpleConnectionPool.putconn: the connection is out no longer; it is kept
\* idle when fewer than minconn are idle, and closed otherwise
putconn(idle, used, close) ==
    [ idle |-> IF idle < minconn /\ ~close THEN idle + 1 ELSE idle,
      used |-> used - 1 ]

\* DatabaseConnection.get_connection: a connection that fails the health
\* check of the first attempt is closed and another one is taken
get_connection(idle, used, stale) ==
    LET first == getconn(idle, used)
    IN  IF first.ok /\ stale
        THEN LET back == putconn(first.idle, first.used, TRUE)
             IN  getconn(back.idle, back.used)
        ELSE first

\* DatabaseConnection.return_connection
return_connection(idle, used) == putconn(idle, used, FALSE)

\* the operation ends and its connection was not handed back: 'with
\* get_connection() as conn' commits or rolls back, conn.close() closes, and
\* neither calls putconn
KeepsConnection(c) ==
    /\ pool_idle' = c.idle
    /\ pool_used' = c.used

\* finally: if conn: self.db.return_connection(conn)
ReturnsConnection(c) ==
    LET back == IF c.ok THEN return_connection(c.idle, c.used) ELSE c
    IN  /\ pool_idle' = back.idle
        /\ pool_used' = back.used

\* parcels of one natural key that the repository stores without an error
StorableParcels ==
    { e \in ParcelFeatures :
        /\ ~Falsy(e.fid) /\ e \notin FailingParcels
        /\ e.tapukimlikno = "1" /\ e.tapuzeminref = "1" }

\* LogRepository.insert_log
InsertLogCall(stale, raises) ==
    LET c == get_connection(pool_idle, pool_used, stale)
    IN  /\ pc = "idle"
        /\ KeepsConnection(c)
        /\ IF ~c.ok THEN pool_result' = "refused" /\ UNCHANGED tk_logs
           ELSE IF raises THEN pool_result' = "failed" /\ UNCHANGED tk_logs
           ELSE pool_result' = "ok" /\ tk_logs' = tk_logs + 1
        /\ UNCHANGED << dbVars, tk_settings, loopVars, harnessVars, in_flight,
                        fetchVars,
                        notified, geomVars >>

\* FailedRecordsRepository.insert_failed_record
InsertFailedRecordCall(stale, feature) ==
    LET c == get_connection(pool_idle, pool_used, stale)
    IN  /\ pc = "idle"
        /\ KeepsConnection(c)
        /\ IF ~c.ok
           THEN pool_result' = "refused" /\ UNCHANGED tk_failed_records
           ELSE /\ pool_result' = "ok"
                /\ tk_failed_records' =
                     insert_failed_record(tk_failed_records, "parcel",
                                          feature, "DataError")
        /\ UNCHANGED << tk_parsel, tk_ilce, tk_mahalle, tk_settings, tk_logs,
                        loopVars, harnessVars, in_flight, fetchVars,
                        notified, geomVars >>

\* ParcelRepository.insert_parcels with a batch of one storable parcel:
\* without a connection it raises
InsertParcelsPooled(stale, feature) ==
    LET c == get_connection(pool_idle, pool_used, stale)
    IN  /\ pc = "idle"
        /\ KeepsConnection(c)
        /\ IF ~c.ok
           THEN pool_result' = "raised" /\ UNCHANGED tk_parsel
           ELSE /\ pool_result' = "ok"
                /\ tk_parsel' = insert_parcels(tk_parsel, tk_failed_records,
                                               << feature >>).table
        /\ UNCHANGED << tk_ilce, tk_mahalle, tk_failed_records, tk_settings,
                        tk_logs, loopVars, harnessVars, in_flight,
                        fetchVars,
                        notified, geomVars >>

\* SchemaManager.create_all_tables (CREATE TABLE IF NOT EXISTS)
CreateTablesCall(stale) ==
    LET c == get_connection(pool_idle, pool_used, stale)
    IN  /\ pc = "idle"
        /\ KeepsConnection(c)
        /\ pool_result' = IF c.ok THEN "ok" ELSE "raised"
        /\ UNCHANGED << dbVars, tk_settings, tk_logs, loopVars, harnessVars,
                        in_flight, fetchVars,
                        notified, geomVars >>

\* SettingsRepository.update_setting; the harness notes what was passed and
\* what the mode had stored before
UpdateSettingCall(stale, query_date, start_index, scrape_type) ==
    LET c == get_connection(pool_idle, pool_used, stale)
    IN  /\ pc = "idle"
        /\ ReturnsConnection(c)
        /\ last_batch' = << [ query_date |-> query_date,
                              start_index |-> start_index,
                              scrape_type |-> scrape_type ] >>
        /\ before_last' = tk_settings[scrape_type]
        /\ IF ~c.ok
           THEN pool_result' = "refused" /\ UNCHANGED tk_settings
           ELSE /\ tk_settings' = update_setting(tk_settings, query_date,
                                                 start_index, scrape_type)
                /\ pool_result' = IF ColumnAccepts(scrape_type) THEN "ok"
                                  ELSE "failed"
        /\ UNCHANGED << dbVars, tk_logs, loopVars, kind, feed, last_result,
                        submitted, calls, in_flight, fetchVars, notified, geomVars >>

\* SettingsRepository.get_last_setting and is_daily_limit_reached: a SELECT
SettingsReadCall(stale) ==
    LET c == get_connection(pool_idle, pool_used, stale)
    IN  /\ pc = "idle"
        /\ ReturnsConnection(c)
        /\ pool_result' = IF c.ok THEN "ok" ELSE "refused"
        /\ UNCHANGED << dbVars, tk_settings, tk_logs, loopVars, harnessVars,
                        in_flight, fetchVars,
                        notified, geomVars >>

InitPoolHarness ==
    /\ InitStorage
    /\ InitProcessIdle
    /\ kind = "parcel"
    /\ feed = << >>
    /\ last_batch = << >>
    /\ last_result = NoResult
    /\ before_last = << >>
    /\ submitted = << >>
    /\ calls = << >>

NextPool ==
    \/ \E stale, raises \in BOOLEAN : InsertLogCall(stale, raises)
    \/ \E stale \in BOOLEAN, e \in FailingParcels :
          InsertFailedRecordCall(stale, e)
    \/ \E stale \in BOOLEAN, e \in StorableParcels :
          InsertParcelsPooled(stale, e)
    \/ \E stale \in BOOLEAN : CreateTablesCall(stale)
    \/ \E stale \in BOOLEAN, d \in 1..2, i \in { 0, MaxFeatures },
          t \in { "False", "daily_sync" } :
          UpdateSettingCall(stale, d, i, t)
    \/ \E stale \in BOOLEAN : SettingsReadCall(stale)

\* repository operations of one process, in any order
SpecPool == InitPoolHarness /\ [][NextPool]_vars

---------------------------------------------------------------------------
(* The quota check at the entry of a sync, on a connection of the pool *)

\* SettingsRepository.is_daily_limit_reached as the entry points call it:
\* get_connection raising (no connection to be had) and the query raising
\* both end in 'except Exception: ... return False'
LimitReached(c, settings, today) ==
    IF ~c.ok THEN FALSE ELSE is_daily_limit_reached(settings, today)

\* the flag could not be read: no connection, or the query raised
FlagUnreadable(c) == ~c.ok \/ ~ColumnAccepts("daily_limit_reached")

\* sync_daily_parcels up to its loop: the quota check on a pooled
\* connection, 'return' when it answers True, else the loop is entered
SyncDailyPooled(stale) ==
    LET c == get_connection(pool_idle, pool_used, stale)
    IN  /\ pc = "idle"
        /\ ReturnsConnection(c)
        /\ pool_result' = IF ~c.ok THEN "refused"
                          ELSE IF ColumnAccepts("daily_limit_reached")
                          THEN "ok" ELSE "failed"
        /\ IF LimitReached(c, tk_settings, Today)
           THEN pc' = "returned" /\ end_reason' = "quota"
           ELSE pc' = "loop" /\ end_reason' = "none"
        /\ current_index' = 0
        /\ current_date' = DefaultDate
        /\ UNCHANGED << dbVars, tk_settings, tk_logs, impl, running, content,
                        all_features, raw_count, features_count, saved_count,
                        page_at, outcome, historyVars, harnessVars,
                        in_flight, fetchVars, notified, geomVars,
                    query_log >>

NextEntry ==
    \/ NextPool
    \/ \E stale \in BOOLEAN : SyncDailyPooled(stale)
    \/ \E page \in Pages : FetchPage(page)

\* repository operations of one process, then a sync entered and its first
\* query
SpecEntry == InitPoolHarness /\ [][NextEntry]_vars

---------------------------------------------------------------------------
(* The geometry of one feature: WFSGeometryProcessor.process_geometry_element *)

\* longest text of one gml:coordinates element, in lon,lat pairs
MaxRingLen == 4
\* largest number of gml:coordinates elements inside one geometry element
MaxRings == 2

\* the lon,lat pairs the feed uses
Points == { << 0, 0 >>, << 1, 0 >>, << 1, 1 >> }

\* the coordinate systems a processor is constructed with; the default
\* arguments are EPSG:4326 and EPSG:2320
CRSs == { "EPSG:4326", "EPSG:2320" }

\* local variable geometry_types: the tags looked for, in this order
geometry_types ==
    << "MultiPolygon", "Polygon", "Point", "LineString", "MultiPoint",
       "MultiLineString" >>

\* the kinds the ring closure is applied to
PolygonKinds == { "MultiPolygon", "Polygon" }

\* a WKT text: its keyword, the coordinate lists it holds, and who wrote it
\* (shapely.wkt.dumps, the hand-made text of the except branch, or OGR)
Wkt(keyword, shells, writer) ==
    [ keyword |-> keyword, shells |-> shells, writer |-> writer ]

NoWkt == Wkt(None, << >>, None)

\* the text of a gml:coordinates element: blank, a token that holds a ','
\* and no number, or lon,lat pairs
CoordinateText(form, pairs) == [ form |-> form, pairs |-> pairs ]

CoordinateTexts ==
    { CoordinateText("blank", << >>), CoordinateText("unparsable", << >>) }
    \cup { CoordinateText("pairs", pairs) :
             pairs \in UNION { [ 1..n -> Points ] : n \in 0..MaxRingLen } }

\* 'coord_elem.text is not None and coord_elem.text.strip()'
HasText(text) == text.form # "blank"

\* extract_coordinates_from_string: the pairs of the text in order; float()
\* of a token that is no number raises ValueError
extract_coordinates_from_string(text) ==
    IF text.form = "unparsable"
    THEN [ raised |-> TRUE, coordinates |-> << >> ]
    ELSE [ raised |-> FALSE, coordinates |-> text.pairs ]

\* a ring that is never closed
LeaveOpen(type, coords) == coords

\* 'if geom_type in [MultiPolygon, Polygon] and len(coords) >= 3:
\*      if coords[0] != coords[-1]: coords.append(coords[0])'
CloseRing(type, coords) ==
    IF /\ type \in PolygonKinds
       /\ Len(coords) >= 3
       /\ coords[1] # coords[Len(coords)]
    THEN Append(coords, coords[1])
    ELSE coords

\* the projection between two different coordinate systems: some map that
\* moves every point and keeps different points different
Project(point) == << point[1] + 10, point[2] + 20 >>

\* Transformer.transform / geom.Transform: between identical coordinate
\* systems the transformation leaves the coordinates as they are
Transform(point, source, target) ==
    IF source = target THEN point ELSE Project(point)

\* transform_coordinates: the points of the list, transformed in order
transform_coordinates(coordinates, source, target) ==
    [ i \in 1..Len(coordinates) |-> Transform(coordinates[i], source, target) ]

\* shapely closes the shell of a Polygon that is not closed
LinearRing(ring) ==
    IF Len(ring) = 0 \/ ring[1] = ring[Len(ring)]
    THEN ring
    ELSE Append(ring, ring[1])

\* shapely refuses a shell of fewer than 4 coordinates (an empty one gives
\* the empty polygon)
PolygonRaises(ring) == Len(ring) > 0 /\ Len(LinearRing(ring)) < 4

\* shapely refuses a line of one coordinate
LineStringRaises(ring) == Len(ring) = 1

\* how the try block of create_wkt_from_rings ends: with a return, in the
\* except branch, or by falling through to the raise after it
Returned(keyword, shells) ==
    [ how |-> "return", wkt |-> Wkt(keyword, shells, "shapely") ]

Excepted == [ how |-> "except", wkt |-> NoWkt ]

FellThrough == [ how |-> "fall", wkt |-> NoWkt ]

\* wkt_dumps(Polygon(ring))
PolygonOf(ring) ==
    IF PolygonRaises(ring)
    THEN Excepted
    ELSE Returned("POLYGON", << LinearRing(ring) >>)

\* 'len(ring) >= 4': a ring that can be the shell of a polygon
IsShell(ring) == Len(ring) >= 4

\* wkt_dumps(MultiPolygon(polygons)) of polygons made of rings of 4 or more
\* points
MultiPolygonOf(polygons) ==
    Returned("MULTIPOLYGON",
             [ i \in 1..Len(polygons) |-> LinearRing(polygons[i]) ])

\* the branch 'Yedek: poligon olarak varsay' (assume a polygon)
AssumePolygon(rings) ==
    IF Len(rings) > 0 /\ Len(rings[1]) >= 3
    THEN IF Len(rings) = 1
         THEN PolygonOf(rings[1])
         ELSE LET polygons == SelectSeq(rings, IsShell)
              IN  IF Len(polygons) = 1
                  THEN PolygonOf(polygons[1])
                  ELSE MultiPolygonOf(polygons)
    ELSE FellThrough

\* the try block of create_wkt_from_rings
TryBlock(type, rings) ==
    IF Len(rings) = 0
    THEN Excepted       \* 'raise ValueError' inside the try
    ELSE IF type = "Point"
    THEN IF Len(rings[1]) > 0
         THEN Returned("POINT", << << rings[1][1] >> >>)
         ELSE AssumePolygon(rings)
    ELSE IF type \in { "LineString", "MultiLineString" }
    THEN IF \E i \in 1..Len(rings) : LineStringRaises(rings[i])
         THEN Excepted
         ELSE IF Len(rings) = 1
         THEN Returned("LINESTRING", rings)
         ELSE Returned("MULTILINESTRING", rings)
    ELSE IF type = "Polygon"
    THEN PolygonOf(rings[1])    \* the first ring only
    ELSE IF type = "MultiPolygon"
    THEN LET polygons == SelectSeq(rings, IsShell)
         IN  IF Len(polygons) = 0
             THEN AssumePolygon(rings)
             ELSE IF Len(polygons) = 1
             THEN PolygonOf(polygons[1])
             ELSE MultiPolygonOf(polygons)
    ELSE AssumePolygon(rings)

\* the branch 'Manuel yedek' of the except clause: the text is put together
\* by hand from the rings as they are
ManualWkt(rings) ==
    Wkt(IF Len(rings) = 1 THEN "POLYGON" ELSE "MULTIPOLYGON", rings, "manual")

\* create_wkt_from_rings
create_wkt_from_rings(type, rings) ==
    LET try == TryBlock(type, rings)
    IN  IF try.how = "return"
        THEN [ raised |-> FALSE, wkt |-> try.wkt ]
        ELSE IF try.how = "except"
        THEN [ raised |-> FALSE, wkt |-> ManualWkt(rings) ]
        ELSE [ raised |-> TRUE, wkt |-> NoWkt ]

\* transform_geometry_gdal: the geometry of the text with every point
\* transformed, exported by OGR
transform_geometry_gdal(text, source, target) ==
    Wkt(text.keyword,
        [ i \in 1..Len(text.shells) |->
              transform_coordinates(text.shells[i], source, target) ],
        "ogr")

\* _rings_from_wkt: the coordinate lists of the text, or [] when shapely
\* cannot load it
rings_from_wkt(text, loads) == IF loads THEN text.shells ELSE << >>

\* WFSGeometryProcessor(): the build has GDAL or not
NewProcessor(gdal, source, target) ==
    /\ geom_pc = "idle"
    /\ gdal_available' = gdal
    /\ source_crs' = source
    /\ target_crs' = target
    /\ geom_pc' = "constructed"
    /\ UNCHANGED << geom_type, coord_read, all_original_rings,
                    all_transformed_rings, geom_wkt >>
    /\ UNCHANGED << dbVars, tk_settings, tk_logs, loopVars, harnessVars,
                    in_flight, fetchVars, poolVars, notified >>

\* the first geometry element found in the feature, by the order of
\* geometry_types
FindGeometry(type) ==
    /\ geom_pc = "constructed"
    /\ geom_type' = type
    /\ geom_pc' = "coordinates"
    /\ UNCHANGED << gdal_available, source_crs, target_crs, coord_read,
                    all_original_rings, all_transformed_rings, geom_wkt >>
    /\ UNCHANGED << dbVars, tk_settings, tk_logs, loopVars, harnessVars,
                    in_flight, fetchVars, poolVars, notified >>

\* the feature holds no element of a supported kind: None is returned
FindNone ==
    /\ geom_pc = "constructed"
    /\ geom_pc' = "not_found"
    /\ UNCHANGED << gdal_available, source_crs, target_crs, geom_type,
                    coord_read, all_original_rings, all_transformed_rings,
                    geom_wkt >>
    /\ UNCHANGED << dbVars, tk_settings, tk_logs, loopVars, harnessVars,
                    in_flight, fetchVars, poolVars, notified >>

\* one turn of 'for coord_elem in coord_elements'
ReadCoordinates(text) ==
    /\ geom_pc = "coordinates"
    /\ Len(coord_read) < MaxRings
    /\ coord_read' = Append(coord_read, text)
    /\ LET parsed == extract_coordinates_from_string(text)
           original_coords == CloseRing(geom_type, parsed.coordinates)
           transformed_coords ==
               CloseRing(geom_type,
                         transform_coordinates(original_coords, source_crs,
                                               target_crs))
       IN  IF ~HasText(text)
           THEN UNCHANGED << geom_pc, all_original_rings,
                             all_transformed_rings >>
           ELSE IF parsed.raised
           THEN \* 'except Exception: ... continue': the element is given up
                /\ geom_pc' = "skipped"
                /\ UNCHANGED << all_original_rings, all_transformed_rings >>
           ELSE /\ all_original_rings' =
                       Append(all_original_rings, original_coords)
                /\ all_transformed_rings' =
                       IF gdal_available
                       THEN all_transformed_rings
                       ELSE Append(all_transformed_rings, transformed_coords)
                /\ UNCHANGED geom_pc
    /\ UNCHANGED << gdal_available, source_crs, target_crs, geom_type,
                    geom_wkt >>
    /\ UNCHANGED << dbVars, tk_settings, tk_logs, loopVars, harnessVars,
                    in_flight, fetchVars, poolVars, notified >>

\* after the last coordinates element: the WKT text is made and the result
\* returned.  A hand-made text need not be well formed: OGR reads it or
\* raises, shapely loads what OGR exported or does not
BuildWkt(ogr_reads, loads) ==
    /\ geom_pc = "coordinates"
    /\ LET made == create_wkt_from_rings(
                       geom_type,
                       IF gdal_available THEN all_original_rings
                       ELSE all_transformed_rings)
           well_formed == made.wkt.writer = "shapely"
       IN  IF made.raised \/ (gdal_available /\ ~well_formed /\ ~ogr_reads)
           THEN /\ geom_pc' = "skipped"
                /\ UNCHANGED << all_transformed_rings, geom_wkt >>
           ELSE IF gdal_available
           THEN LET text == transform_geometry_gdal(made.wkt, source_crs,
                                                    target_crs)
                IN  /\ geom_wkt' = text
                    /\ all_transformed_rings' =
                           rings_from_wkt(text, well_formed \/ loads)
                    /\ geom_pc' = "returned"
           ELSE /\ geom_wkt' = made.wkt
                /\ geom_pc' = "returned"
                /\ UNCHANGED all_transformed_rings
    /\ UNCHANGED << gdal_available, source_crs, target_crs, geom_type,
                    coord_read, all_original_rings >>
    /\ UNCHANGED << dbVars, tk_settings, tk_logs, loopVars, harnessVars,
                    in_flight, fetchVars, poolVars, notified >>

InitGeometry ==
    /\ InitStorage
    /\ InitProcessIdle
    /\ kind = "parcel"
    /\ feed = << >>
    /\ last_batch = << >>
    /\ last_result = NoResult
    /\ before_last = << >>
    /\ submitted = << >>
    /\ calls = << >>

NextGeometry ==
    \/ \E gdal \in BOOLEAN, source \in CRSs :
          NewProcessor(gdal, source, "EPSG:2320")
    \/ \E i \in 1..Len(geometry_types) : FindGeometry(geometry_types[i])
    \/ FindNone
    \/ \E text \in CoordinateTexts : ReadCoordinates(text)
    \/ \E ogr_reads, loads \in BOOLEAN : BuildWkt(ogr_reads, loads)

\* one geometry element of one feature, read by a new processor
SpecGeometry == InitGeometry /\ [][NextGeometry]_vars

---------------------------------------------------------------------------
(* Properties of the repositories *)

\* rows of the table the harness writes
TableOf(k) ==
    IF k = "parcel" THEN tk_parsel
    ELSE IF k = "district" THEN tk_ilce
    ELSE tk_mahalle

\* the non-key attribute of an entity of kind k
NonKeyOf(k, e) ==
    IF k = "parcel" THEN e.parselno
    ELSE IF k = "district" THEN e.ilref
    ELSE e.ilceref

\* the natural key of an entity or row of kind k
NaturalKey(k, e) ==
    IF k = "parcel" THEN << e.tapukimlikno, e.tapuzeminref >>
    ELSE << e.tapukimlikno >>

KeyPresent(k, e) == \A i \in DOMAIN NaturalKey(k, e) : NaturalKey(k, e)[i] # None

\* the row an entity of kind k is stored as
RowOf(k, e) ==
    IF k = "parcel" THEN ParcelRow(e)
    ELSE IF k = "district" THEN DistrictRow(e)
    ELSE NeighbourhoodRow(e)

\* the entity passes the checks of the repository and the server takes it
Persistable(k, e) ==
    /\ ~Falsy(e.fid)
    /\ e.wkt # ""
    /\ ~ServerRejects(NonKeyOf(k, e))

\* the entity reaches the INSERT and the server refuses it
Refused(k, e) ==
    /\ ~Falsy(e.fid)
    /\ e.wkt # ""
    /\ ServerRejects(NonKeyOf(k, e))

RowsWithKey(k, e) ==
    { i \in DOMAIN TableOf(k) : NaturalKey(k, TableOf(k)[i]) = NaturalKey(k, e) }

\* C2: a batch of N >= 2 parcels in which exactly one INSERT raised: the
\* other N-1 entities are stored after the commit and the failed-record
\* store holds exactly one row, the one of the refused entity.
C2_PartialBatchFailure ==
    ( /\ kind = "parcel"
      /\ calls = << "insert" >>
      /\ Len(last_batch) >= 2
      /\ last_result.error_count = 1
      /\ last_result.skipped_count = 0 )
    => /\ \A i \in DOMAIN last_batch :
            Persistable("parcel", last_batch[i])
                => RowsWithKey("parcel", last_batch[i]) # {}
       /\ Len(tk_failed_records) = 1
       /\ \E i \in DOMAIN last_batch :
            /\ Refused("parcel", last_batch[i])
            /\ tk_failed_records[1].entity_id = EntityId(last_batch[i])

\* C9: when no INSERT was refused, every present natural key handed to a
\* repository (in one batch or in successive batches) has exactly one stored
\* row, and that row holds the values of the last entity persisted with it.
C9_IdempotentPersistence ==
    ( \A i \in DOMAIN submitted : ~Refused(kind, submitted[i]) )
    => \A i \in DOMAIN submitted :
          ( /\ Persistable(kind, submitted[i])
            /\ KeyPresent(kind, submitted[i])
            /\ \A j \in DOMAIN submitted :
                  ( /\ j > i
                    /\ Persistable(kind, submitted[j]) )
                  => NaturalKey(kind, submitted[j]) # NaturalKey(kind, submitted[i]) )
          => /\ Cardinality(RowsWithKey(kind, submitted[i])) = 1
             /\ \A r \in RowsWithKey(kind, submitted[i]) :
                   TableOf(kind)[r] = RowOf(kind, submitted[i])

\* two entities with one natural key and different values were persisted in
\* two successive batches, and one row with the second one's values is stored
C9_Witness ==
    /\ calls = << "insert", "insert" >>
    /\ Len(submitted) = 2
    /\ Persistable(kind, submitted[1])
    /\ Persistable(kind, submitted[2])
    /\ KeyPresent(kind, submitted[1])
    /\ NaturalKey(kind, submitted[1]) = NaturalKey(kind, submitted[2])
    /\ NonKeyOf(kind, submitted[1]) # NonKeyOf(kind, submitted[2])
    /\ TableOf(kind) = << RowOf(kind, submitted[2]) >>

\* C10: persisting the same page of parcels a second time leaves the stored
\* rows as they were after the first time.
C10_ReplaySafe ==
    ( /\ kind = "parcel"
      /\ calls # << >>
      /\ Last(calls) = "replay" )
    => tk_parsel = before_last

\* positions of the last batch whose entity reached its INSERT and has a
\* stored parcel row
StoredOfBatch ==
    { i \in DOMAIN last_batch :
        /\ ~Falsy(last_batch[i].fid)
        /\ last_batch[i].wkt # ""
        /\ RowsWithKey("parcel", last_batch[i]) # {} }

\* C11: the count insert_parcels returns for a batch persisted into an empty
\* table is the number of entities of the batch that have a stored row once
\* the batch's commit has run.
C11_SavedCountIsStored ==
    ( kind = "parcel" /\ calls = << "insert" >> )
    => last_result.saved_count = Cardinality(StoredOfBatch)

\* the entity fails again in the batch that is persisted a second time
FailsAgain(e) == Refused("parcel", e)

\* C13: when a batch is persisted again and one of its entities fails again,
\* the failed row that entity already has is updated by the second failure
\* (retry count or latest error), it is not left as it was.
C13_RefailureUpdatesRow ==
    [][ ( kind = "parcel" /\ calls' = Append(calls, "replay") )
        => \A i \in DOMAIN tk_failed_records :
              ( /\ tk_failed_records[i].status = "failed"
                /\ \E j \in DOMAIN last_batch :
                      /\ FailsAgain(last_batch[j])
                      /\ tk_failed_records[i].entity_id = EntityId(last_batch[j]) )
              => tk_failed_records'[i] # tk_failed_records[i] ]_vars

\* C12: whatever insert_failed_record, mark_as_resolved and
\* increment_retry_count did, one after the other or at the same time, no
\* two failed-record rows have the same (entity_type, entity_id, status).
C12_FailedRecordUniqueness ==
    \A i, j \in DOMAIN tk_failed_records :
        i # j => FailedKey(tk_failed_records[i]) # FailedKey(tk_failed_records[j])

\* an entity has a resolved and a failed row, and a statement of a caller
\* that would have made a second row under one of the two keys was absorbed
C12_Witness ==
    /\ \E c \in Callers : in_flight[c].op = "nothing"
    /\ \E i, j \in DOMAIN tk_failed_records :
          /\ tk_failed_records[i].entity_id = tk_failed_records[j].entity_id
          /\ tk_failed_records[i].status = "resolved"
          /\ tk_failed_records[j].status = "failed"

---------------------------------------------------------------------------
(* Properties of the daily sync loop *)

\* (date, index) positions in the order the loop visits them
NotLater(p, q) == p[1] < q[1] \/ (p[1] = q[1] /\ p[2] <= q[2])

\* C1: a process that was started after the one before it died inside the
\* loop begins at or before the position the dead one stood at, and fetches
\* at most one of the pages the dead one had fetched a second time.
C1_ResumeExactness ==
    ( /\ restarts >= 1
      /\ crash_at # << >>
      /\ pc \in InLoop )
    => /\ first_fetch # << >> => NotLater(first_fetch, crash_at)
       /\ Cardinality(refetched) <= 1

\* C3: when the invocation has ended, by return or by a shutdown signal, the
\* stored cursor of its mode holds the (date, index) the loop stood at.
C3_FinalCursorPersisted ==
    pc \in { "returned", "interrupted" }
    => Persisted = << Cursor(current_date, current_index) >>

\* C4: the cursor stored after a page with fewer than max_features entities
\* has a later date than the page and index 0; and whenever the date of the
\* stored cursor changes, its index is 0.
C4_CursorAfterShortPage ==
    [][ ( Persisted' # Persisted /\ Persisted' # << >> )
        => /\ ( pc = "inserted" /\ features_count < MaxFeatures )
                => /\ Persisted'[1].query_date > page_at[1]
                   /\ Persisted'[1].start_index = 0
           /\ ( Persisted # << >>
                /\ Persisted'[1].query_date # Persisted[1].query_date )
                => Persisted'[1].start_index = 0 ]_vars

\* C5: once a page that yielded exactly max_features entities is persisted
\* and its cursor saved, the stored cursor has the date the page was fetched
\* for and the index it was fetched at plus max_features.
C5_CursorAfterFullPage ==
    ( outcome = "saved" /\ features_count = MaxFeatures )
    => Persisted = << Cursor(page_at[1], page_at[2] + MaxFeatures) >>

\* a full page was persisted and the cursor saved behind it
C5_Witness ==
    /\ pc = "loop"
    /\ outcome = "saved"
    /\ features_count = MaxFeatures
    /\ page_at = << 0, MaxFeatures >>
    /\ Persisted = << Cursor(0, 2 * MaxFeatures) >>

\* C6: when the next fetch is about to be issued after a page without
\* features, the loop stands at the next day with index 0 and that cursor
\* is the stored one.
C6_EmptyPagePersisted ==
    ( /\ pc = "loop"
      /\ outcome = "empty"
      /\ current_date < Today
      /\ running )
    => /\ current_date = page_at[1] + 1
       /\ current_index = 0
       /\ Persisted = << Cursor(current_date, current_index) >>

\* the loop stands at the next day with index 0
DayAdvanced == current_date = page_at[1] + 1 /\ current_index = 0

\* the loop stands at the same day, the index advanced by the page size
IndexAdvanced ==
    current_date = page_at[1] /\ current_index = page_at[2] + MaxFeatures

\* C7 as amended: after a page whose entities were persisted the loop
\* advances the day and resets the index exactly when the number of decoded
\* entities handed to the repository is lower than the page size; otherwise
\* it advances the index by the page size and stays on the same day.
C7_DayAdvanceByDecodedCount ==
    ( pc = "loop" /\ outcome = "saved" )
    => /\ DayAdvanced <=> features_count < MaxFeatures
       /\ features_count >= MaxFeatures => IndexAdvanced

\* a page of max_features decoded entities of which fewer were saved: the
\* loop stays on the day
C7_Witness ==
    /\ pc = "loop"
    /\ outcome = "saved"
    /\ features_count = MaxFeatures
    /\ saved_count < MaxFeatures
    /\ IndexAdvanced

\* C7 as stated: after a non-empty page the loop advances the day and resets
\* the index exactly when the count the repository reports as saved is lower
\* than the page size; otherwise it advances the index and stays on the day.
C7_DayAdvanceBySavedCount ==
    ( pc = "loop" /\ outcome = "saved" )
    => /\ DayAdvanced <=> saved_count < MaxFeatures
       /\ saved_count >= MaxFeatures => IndexAdvanced

\* C8: the loop moves to the next date only after a page on which the
\* service returned fewer than max_features features; after a full page of
\* the service the next offset of the same date is up.
C8_NoPrematureDayAdvance ==
    ( pc = "loop" /\ outcome \in { "empty", "undecoded", "saved" } )
    => /\ current_date # page_at[1] => raw_count < MaxFeatures
       /\ raw_count = MaxFeatures => IndexAdvanced

---------------------------------------------------------------------------
(* Properties of the features of a page *)

\* the feature was decoded into an entity and handed to the repository
Decoded(elem) ==
    process_geometry_element(elem).found /\ ~Falsy(process_geometry_element(elem).wkt)

\* outcome 'persisted': the entity decoded from the feature has its row
IsPersisted(elem) ==
    /\ Decoded(elem)
    /\ \E r \in DOMAIN tk_parsel : tk_parsel[r] = ParcelRow(DecodeElement(elem))

\* outcome 'skipped': dropped by the decoder for want of a geometry, or
\* counted as skipped by the repository for want of a fid
IsSkipped(elem) ==
    \/ ~Decoded(elem)
    \/ Falsy(DecodeElement(elem).fid)

\* outcome 'failed': the feature has a row in the failed-record store
IsFailed(elem) ==
    \E r \in DOMAIN tk_failed_records :
        /\ tk_failed_records[r].entity_type = "parcel"
        /\ tk_failed_records[r].entity_id = EntityId(DecodeElement(elem))

\* number of the three outcomes the feature ended in
OutcomesOf(elem) ==
    (IF IsPersisted(elem) THEN 1 ELSE 0)
    + (IF IsSkipped(elem) THEN 1 ELSE 0)
    + (IF IsFailed(elem) THEN 1 ELSE 0)

\* the page in hand has been decoded and its entities handed to the
\* repository, or nothing of it could be decoded
PageProcessed ==
    \/ pc = "inserted"
    \/ pc = "loop" /\ outcome = "undecoded"

\* C14: once a fetched page is processed, each of its raw features ended in
\* exactly one of the outcomes persisted, skipped and failed.
C14_ExactlyOneOutcome ==
    PageProcessed => \A i \in DOMAIN content : OutcomesOf(content[i]) = 1

\* C15: once a fetched page is processed, every feature of it whose geometry
\* extraction raised has a failed-record row carrying its payload, and every
\* other feature of the page that has a geometry was decoded and handed on.
C15_DecodeFailureRecorded ==
    PageProcessed
    => \A i \in DOMAIN content :
          /\ GeometryRaises(content[i].geometry)
                => \E r \in DOMAIN tk_failed_records :
                      /\ tk_failed_records[r].entity_id
                            = EntityId(DecodeElement(content[i]))
                      /\ tk_failed_records[r].raw_data.fid
                            = ExtractFid(content[i].fid_full)
          /\ Decoded(content[i])
                => \E k \in DOMAIN all_features :
                      all_features[k] = DecodeElement(content[i])

---------------------------------------------------------------------------
(* Properties of fetch_features and of the quota flag *)

\* the quota flag row carries today's date
FlagPersisted ==
    tk_settings["daily_limit_reached"] = << Cursor(Today, 0) >>

\* the last attempt ended in a timeout, a connection failure or a 5xx
\* response without the quota keyword
TransientFailure(a) ==
    \/ a.kind \in { "timeout", "connection" }
    \/ a.kind = "http" /\ a.status >= 500 /\ ~a.limit

\* the call of fetch_features has returned its failure to the loop
FetchFailed ==
    pc \in { "final", "returned" } /\ end_reason = "fetch_failed"

\* C16: an invocation that is started on the day on which an earlier
\* invocation met the quota message (the event that sets the quota flag)
\* returns without issuing an HTTP request.
C16_QuotaShortCircuit ==
    quota_before
    => /\ pc \notin { "fetching", "fetched", "decoded", "inserted" }
       /\ attempt = 0
       /\ fetched = {}

\* C17: after an attempt met a 5xx response with the quota keyword no
\* further attempt is made, and when the failure is returned the quota flag
\* dated today is stored.
C17_QuotaDetection ==
    quota_at # 0
    => /\ attempt = quota_at
       /\ pc # "fetching"
       /\ FetchFailed => FlagPersisted

\* C18: a call of fetch_features in which no attempt was answered, refused
\* with a 4xx status or told of the quota, whose running flag stayed true and
\* which has returned its failure, made exactly max_retries attempts and max_retries - 1 pauses;
\* while it runs, it has paused once per attempt but the last possible one.
C18_RetryBound ==
    ( TransientFailure(answer) /\ quota_at = 0 /\ running )
    => /\ FetchFailed => ( attempt = max_retries /\ sleeps = max_retries - 1 )
       /\ pc = "fetching"
            => sleeps = IF attempt < max_retries THEN attempt
                        ELSE max_retries - 1

\* every attempt failed, the retries are used up and the failure is returned
C18_Witness ==
    /\ FetchFailed
    /\ TransientFailure(answer)
    /\ quota_at = 0
    /\ attempt = max_retries
    /\ sleeps = max_retries - 1

\* C19: once an attempt met a 4xx response, no further attempt is made and
\* the invocation is over: the loop was left, no other page is fetched.
C19_ClientErrorNotRetried ==
    ( answer.kind = "http" /\ answer.status >= 400 /\ answer.status < 500 )
    => /\ pc \in { "final", "returned", "interrupted" }
       /\ end_reason \in { "fetch_failed", "signal" }

\* the first attempt of the second page met a 4xx response: the invocation
\* ended with retries left
C19_Witness ==
    /\ answer.kind = "http" /\ answer.status = 404
    /\ attempt = 1
    /\ attempt < max_retries
    /\ pc = "returned"
    /\ end_reason = "fetch_failed"
    /\ fetched # {}

\* C25: every HTTP attempt of fetch_features, answered or not, adds exactly
\* one row to tk_logs, and no step takes a row away from it
C25_AuditCompleteness ==
    [][ /\ tk_logs' >= tk_logs
        /\ ( pc = "fetching" /\ (attempt' = attempt + 1 \/ pc' = "fetched") )
             => tk_logs' = tk_logs + 1 ]_vars

---------------------------------------------------------------------------
(* Properties of the shutdown signal *)

\* C20: when the shutdown signal arrives while the batch of a page is being
\* persisted, the table of parcels afterwards holds what the whole batch
\* commits (nothing of it is dropped, nothing is left half-done), and the
\* process has left the loop: no fetch follows
C20_InFlightBatchCommitted ==
    [][ (pc = "decoded" /\ end_reason' = "signal_in_persist")
        => /\ tk_parsel' = insert_parcels(tk_parsel, tk_failed_records,
                                          all_features).table
           /\ pc' = "interrupted" ]_vars

\* C21: once the shutdown signal has set the running flag to false while
\* fetch_features is in its retry loop, the next step of the fetch starts no
\* attempt and yields no page: it ends the fetch with a stop outcome, which
\* is not the outcome of a failed fetch
C21_FetchCancelled ==
    [][ (pc = "fetching" /\ ~running)
        => /\ attempt' = attempt
           /\ pc' \notin { "fetching", "fetched" }
           /\ end_reason' # "fetch_failed" ]_vars

---------------------------------------------------------------------------
(* Properties of the error handling of the loop *)

\* C23: an invocation that has left the loop before its date reached today,
\* with its running flag still true, left it because a fetch failed (or
\* because of the quota); an error met while a page was decoded or persisted
\* has not ended it: after such an error the process is still in the loop
C23_PropagationPolicy ==
    /\ ( pc \in { "final", "returned" } /\ running /\ current_date < Today )
         => end_reason \in { "fetch_failed", "quota" }
    /\ outcome = "error" => pc \in { "loop", "fetching", "fetched" }

\* C24: when every fetch succeeds and no signal arrives, sync_daily_parcels
\* returns in the end, and whenever it has left its loop the date of the
\* cursor is no longer earlier than today
C24_Termination ==
    /\ <>(pc = "returned")
    /\ [](pc \in { "final", "returned" } => current_date >= Today)

\* C26: when the report of a page is refused by the notifier or raises, the
\* cursor saved for the page is the one that is saved for any page (same
\* date, index advanced by one page), and the loop goes on
C26_NotificationBestEffort ==
    [][ ( pc = "inserted" /\ outcome' # "none"
          /\ notified' \in { "refused", "raised" } )
        => /\ tk_settings' = update_setting(tk_settings, current_date,
                                            AdvanceIndex(current_index),
                                            ScrapeTypeOf(impl))
           /\ pc' = "loop"
           /\ end_reason' = end_reason ]_vars

\* a page whose report raised was saved: its cursor is stored and the
\* process is back in the loop
C26_Witness ==
    /\ notified = "raised"
    /\ outcome = "saved"
    /\ pc = "loop"
    /\ Persisted # << >>

---------------------------------------------------------------------------
(* Properties of the settings table *)

\* C27: after update_setting has returned, the mode it was called for has
\* stored either the pair (query_date, start_index) that was passed, or the
\* row it had stored before the call; never a mixture of the two
C27_AtomicCursorSave ==
    last_batch # << >>
    => LET passed == last_batch[1]
           stored == tk_settings[passed.scrape_type]
       IN  \/ stored = << Cursor(passed.query_date, passed.start_index) >>
           \/ stored = before_last

\* a save that replaced a stored pair by one of another date and another
\* index
C27_Witness ==
    /\ last_batch # << >>
    /\ before_last # << >>
    /\ pool_result = "ok"
    /\ before_last[1].query_date # last_batch[1].query_date
    /\ before_last[1].start_index # last_batch[1].start_index
    /\ tk_settings[last_batch[1].scrape_type]
         = << Cursor(last_batch[1].query_date, last_batch[1].start_index) >>

\* C28: the stored cursor row of a sync mode changes only in the step that
\* commits a save of that very mode; the saves of the other modes, and the
\* setting and the clearing of the quota flag, leave it as it is, also while
\* another caller has a statement open
C28_PerModeIndependence ==
    [][ \A m \in CursorModes :
          tk_settings'[m] # tk_settings[m]
          => \E c \in Callers :
                /\ in_flight[c].op = "upsert"
                /\ in_flight[c].scrape_type = m
                /\ in_flight'[c] = Idle ]_vars

\* both modes have a cursor stored, and each of the two callers has a save
\* of another mode open
C28_Witness ==
    /\ \A m \in CursorModes : tk_settings[m] # << >>
    /\ \A c \in Callers : in_flight[c].op = "upsert"
    /\ in_flight["a"].scrape_type # in_flight["b"].scrape_type
    /\ tk_settings[in_flight["a"].scrape_type] # << in_flight["a"].row >>

---------------------------------------------------------------------------
(* Properties of the connection pool *)

\* C22: between repository operations no connection of the pool is out, and
\* no operation is refused a connection: every operation hands back the
\* connection it took, whether it succeeded or failed
C22_ScopedConnections ==
    /\ pool_used = 0
    /\ pool_result \notin { "refused", "raised" }


---------------------------------------------------------------------------
(* Properties of the geometry of a feature *)

\* the text holds lon,lat pairs, or nothing that looks like a pair
HasPairs(text) == text.form = "pairs"

\* the coordinate lists parsed from the texts read so far
ParsedRings ==
    LET texts == SelectSeq(coord_read, HasPairs)
    IN  [ i \in 1..Len(texts) |-> texts[i].pairs ]

\* the rings process_geometry_element hands to create_wkt_from_rings
HandedRings ==
    IF gdal_available THEN all_original_rings ELSE all_transformed_rings

\* first and last point of the ring differ
OpenRing(ring) == Len(ring) >= 2 /\ ring[1] # ring[Len(ring)]

\* C29: WKT kind for polygon geometries: for a Polygon or MultiPolygon
\* element, one coordinate ring yields a POLYGON and two or more rings
\* yield a MULTIPOLYGON in which every ring is its own closed shell; with
\* identical source and target CRS a MultiPolygon of two 4-point rings
\* yields a MULTIPOLYGON of two shells with unchanged coordinates.
C29_WktKindOfPolygons ==
    (geom_pc = "returned" /\ geom_type \in PolygonKinds) =>
        /\ Len(ParsedRings) = 1 => geom_wkt.keyword = "POLYGON"
        /\ Len(ParsedRings) >= 2 =>
              /\ geom_wkt.keyword = "MULTIPOLYGON"
              /\ Len(geom_wkt.shells) = Len(ParsedRings)
              /\ \A i \in 1..Len(ParsedRings) :
                    /\ ~OpenRing(geom_wkt.shells[i])
                    /\ \A j \in 1..Len(ParsedRings[i]) :
                          geom_wkt.shells[i][j] =
                              Transform(ParsedRings[i][j], source_crs,
                                        target_crs)
        /\ ( /\ geom_type = "MultiPolygon"
             /\ source_crs = target_crs
             /\ Len(ParsedRings) = 2
             /\ \A i \in 1..2 : Len(ParsedRings[i]) = 4 ) =>
              /\ geom_wkt.keyword = "MULTIPOLYGON"
              /\ geom_wkt.shells =
                    [ i \in 1..2 |-> LinearRing(ParsedRings[i]) ]

---------------------------------------------------------------------------
(* Properties of the feature id *)

\* the entities insert_parcels is handed that carry no fid
WithoutFid(features) == { i \in DOMAIN features : Falsy(features[i].fid) }

\* C31: Feature id: the fid of a decoded entity is the part of the raw
\* feature id after its last '.'; an entity for which no fid could be
\* extracted is left out of tk_parsel, is counted as skipped by
\* insert_parcels, and gets no row in tk_failed_records.
C31_FeatureId ==
    [][ /\ (pc = "fetched" /\ pc' = "decoded") =>
              LET kept == SelectSeq(content, Decoded)
              IN  /\ Len(all_features') = Len(kept)
                  /\ \A i \in 1..Len(kept) :
                        LET segments == kept[i].fid_full
                        IN  all_features'[i].fid =
                                IF Len(segments) >= 2
                                THEN segments[Len(segments)]
                                ELSE None
        /\ (pc = "decoded" /\ pc' = "inserted") =>
              LET r == insert_parcels(tk_parsel, tk_failed_records,
                                      all_features)
              IN  /\ r.skipped_count = Cardinality(WithoutFid(all_features))
                  /\ r.saved_count + r.error_count =
                        Len(all_features) - Cardinality(WithoutFid(all_features))
                  /\ \A j \in DOMAIN tk_parsel' : ~Falsy(tk_parsel'[j].fid)
                  /\ \A j \in DOMAIN tk_failed_records' :
                        ~Falsy(tk_failed_records'[j].raw_data.fid) ]_vars

\* a page with a raw feature id without '.' went through insert_parcels,
\* next to an entity that was stored
C31_Witness ==
    /\ pc = "inserted"
    /\ \E i \in DOMAIN content :
          Len(content[i].fid_full) = 1 /\ Decoded(content[i])
    /\ \E i \in DOMAIN all_features : Falsy(all_features[i].fid)
    /\ saved_count = Len(all_features) - 1
    /\ tk_parsel # << >>


---------------------------------------------------------------------------
(* Properties of the page in hand *)

\* the page holds a feature with a fid and a supported geometry
HasUsableFeature(feature_members) ==
    \E i \in DOMAIN feature_members :
        /\ Decoded(feature_members[i])
        /\ ~Falsy(DecodeElement(feature_members[i]).fid)

\* C32: Progress on a non-empty page: in sync_daily_parcels of scraper.py a
\* fetched page that holds a feature with a fid and a supported geometry is
\* decoded and its entities are handed to insert_parcels, after which the
\* cursor is saved; the loop does not end with a processing error.
C32_ProgressOnUsablePage ==
    [][ ( /\ impl = "scraper"
          /\ HasUsableFeature(content)
          /\ running /\ running'      \* no shutdown signal
          /\ pc' # pc ) =>
            /\ pc = "fetched" =>
                  /\ pc' = "decoded"
                  /\ all_features' = DecodeInline(content)
                  /\ end_reason' # "processing_error"
            /\ pc = "inserted" =>
                  /\ pc' = "loop"
                  /\ outcome' = "saved" ]_vars


---------------------------------------------------------------------------
(* Properties of the cursor after a failed fetch *)

\* C33: A failed fetch does not move the cursor past the page: when
\* fetch_features has failed for the page (date, index) and the invocation
\* has returned, the stored cursor of the mode is exactly (date, index), and
\* the next invocation starts at the stored cursor, so it requests that
\* page first.
C33_FailedFetchKeepsCursor ==
    [][ /\ (pc = "final" /\ end_reason = "fetch_failed" /\ pc' = "returned")
              => /\ << current_date', current_index' >> =
                        << current_date, current_index >>
                 /\ Persisted' = << Cursor(current_date, current_index) >>
        /\ (pc = "idle" /\ pc' = "loop" /\ Persisted # << >>)
              => /\ current_date' = Persisted[1].query_date
                 /\ current_index' = Persisted[1].start_index ]_vars


---------------------------------------------------------------------------
(* Properties of the order of the saved cursors *)

\* (date, index) of the one is not after (date, index) of the other
NotAfter(earlier, later) ==
    \/ earlier.query_date < later.query_date
    \/ /\ earlier.query_date = later.query_date
       /\ earlier.start_index <= later.start_index

\* C34: Persisted cursor never moves backwards within a run: each cursor
\* value an invocation of sync_daily_parcels stores for its mode is, in
\* the order (query_date, start_index), not before the value stored until
\* then.
C34_CursorNeverBackwards ==
    [][ ( /\ pc \in InLoop
          /\ Persisted # << >>
          /\ Persisted' # Persisted )
        => /\ Persisted' # << >>
           /\ NotAfter(Persisted[1], Persisted'[1]) ]_vars

\* the run saved (0, 2 pages) and moved to the next day, whose first full
\* page it has saved: the date went up while the index went down
C34_Witness ==
    /\ pc = "loop"
    /\ << 0, MaxFeatures >> \in fetched
    /\ Persisted = << Cursor(1, MaxFeatures) >>

---------------------------------------------------------------------------
(* Batch accounting of the three repositories *)

\* C35: whenever insert_parcels, insert_districts or insert_neighbourhoods
\* returns normally for a batch of N entities, every entity has raised
\* exactly one of the saved, skipped and error counters: the three add up
\* to N, the skipped counter is the number of entities without fid or with
\* an empty wkt, and the value returned is the saved counter, which is N
\* less the other two
C35_BatchAccounting ==
    calls # << >> =>
        LET N == Len(last_batch)
            unusable == { i \in DOMAIN last_batch :
                            Falsy(last_batch[i].fid) \/ last_batch[i].wkt = "" }
        IN  /\ last_result.saved_count + last_result.skipped_count
                 + last_result.error_count = N
            /\ last_result.skipped_count = Cardinality(unusable)
            /\ last_result.saved_count \in 0..N
            /\ last_result.error_count \in 0..N

\* a batch of two districts returned with one entity skipped and one
\* refused by the server
C35_Witness ==
    /\ kind = "district"
    /\ calls # << >>
    /\ Len(last_batch) = 2
    /\ last_result.skipped_count = 1
    /\ last_result.error_count = 1
    /\ last_result.saved_count = 0

---------------------------------------------------------------------------
(* Resolving rows of the failed-record store *)

\* C36: in every reachable state of the failed-record store,
\* mark_as_resolved applied to a row whose status is failed leaves that row
\* with status resolved and returns true, also when the same (entity_type,
\* entity_id) failed, was resolved and failed again earlier
C36_ResolveFailedRow ==
    \A id \in DOMAIN tk_failed_records :
        tk_failed_records[id].status = "failed" =>
            LET r == mark_as_resolved(tk_failed_records, id)
            IN  /\ r.returned
                /\ r.failed[id].status = "resolved"

---------------------------------------------------------------------------
(* The running flag as the stop condition of the full sync *)

\* a page without feature member, or one of which at least one and fewer than
\* max_features features were found
EmptyOrShort(feature_members) ==
    \/ Len(feature_members) = 0
    \/ /\ DecodeInline(feature_members) # << >>
       /\ EndOfFeed(Len(DecodeInline(feature_members)))

\* C37: sync_fully_parcels ends its loop at the first empty or short page
\* by clearing self.running, the flag a shutdown signal clears: when the
\* loop is left with such a page in hand (and not because a fetch or the
\* repository failed) the flag is false; a flag that is false stays false,
\* and while it is false no sync call on the instance fetches anything
C37_FullSyncClearsRunning ==
    [][ /\ ( /\ pc' = "fully_final"
             /\ end_reason' \notin { "fetch_failed", "persistence_error" }
             /\ EmptyOrShort(content') ) => ~running'
        /\ ~running => /\ ~running'
                       /\ tk_logs' = tk_logs
                       /\ fetched' \subseteq fetched ]_vars

---------------------------------------------------------------------------
(* The quota check when the flag cannot be read *)

\* the settings table with the quota flag of today in it
WithFlagOfToday(settings) ==
    [settings EXCEPT !["daily_limit_reached"] = << Cursor(Today, 0) >>]

\* C38: the quota check fails open: whenever the flag cannot be read (the
\* query raises, or no connection is to be had) is_daily_limit_reached
\* answers False, whatever the table holds, the flag of today included, and
\* the sync entry point goes on into its loop, where it issues its query
C38_QuotaCheckFailsOpen ==
    [][ \A stale \in BOOLEAN :
          LET c == get_connection(pool_idle, pool_used, stale)
          IN  /\ FlagUnreadable(c) =>
                    /\ ~LimitReached(c, tk_settings, Today)
                    /\ ~LimitReached(c, WithFlagOfToday(tk_settings), Today)
              /\ (FlagUnreadable(c) /\ SyncDailyPooled(stale)) =>
                    /\ pc' = "loop"
                    /\ current_date' < Today /\ running' ]_vars

\* every connection of the pool is out, the check could get none, and the
\* sync went on to its first query all the same
C38_Witness ==
    /\ pool_result = "refused"
    /\ pool_used = maxconn
    /\ pc = "fetched"
    /\ end_reason = "none"
    /\ fetched = { << DefaultDate, 0 >> }

---------------------------------------------------------------------------
(* The feature count of the query log *)

\* C39: the feature count written to the query log for a successful fetch
\* equals the number of featureMember elements in the response body, and
\* is_empty is true exactly when the body holds none
C39_LoggedFeatureCount ==
    (pc \in { "fetched", "fully_fetched" } /\ query_log.logged) =>
        /\ query_log.feature_count = Len(content)
        /\ query_log.is_empty <=> Len(content) = 0

=============================================================================
